---- MODULE Spec2Model ----
(***************************************************************************)
(* A model of the OpenSCV Slack bot: the inbound-event handlers with their *)
(* de-duplication cache and prompt validation, the stream updater of a     *)
(* request (index.ts), and the supervised run of the Claude CLI child      *)
(* process with its stream parser and its environment (claude.ts).         *)
(*                                                                         *)
(* Strings are sequences of one-character strings.  Times are in           *)
(* milliseconds and advance in steps of a fixed tick.                      *)
(***************************************************************************)
EXTENDS Integers, Sequences, FiniteSets, TLC

VARIABLES
    now,            \* Date.now()
    \* ---- index.ts: the de-duplication cache
    processed,      \* the Map `processed`: key -> insertion time
    cacheTimers,    \* pending setTimeout(() => processed.delete(key)) callbacks
    nextId,         \* identity of the next expiry timer
    gen,            \* history: per key, how many times it was deleted from the cache
    lastAdmit,      \* history: per key, when isDuplicate last returned false (-1: never)
    sweeps,         \* history: how many size-triggered sweeps ran
    calls,          \* history: how many isDuplicate calls were made
    lastCall,       \* history: the key and the return value of the latest call
    \* ---- index.ts: the handler invocations, claude.ts: the regex state
    lastIndex,      \* FORBIDDEN_PATTERNS.lastIndex (the regex has the g flag)
    handlers,       \* the invocations of the app_mention / message handlers
    \* ---- claude.ts: one call of runClaudeStream
    run,            \* its locals: timeoutMs, startTime, killed, killAttempted,
                    \* resultResolved and the three timers
    state,          \* the stream parser state: accumulatedText, currentToolName, isThinking
    child,          \* the child process and its streams
    events,         \* history: the events delivered to onEvent, in order
    resolutions,    \* history: the results passed to resolve(), in order
    signals,        \* history: the kill calls made, in order
    lines,          \* history: how many stdout lines were read
    heartbeats,     \* history: how many heartbeat lines were logged
    \* ---- claude.ts: the stream parser fed with lines, the child environment
    ref,            \* history: the parser run on the well-formed lines only
    parentEnv,      \* process.env
    childEnv,       \* the env option passed to spawn
    \* ---- index.ts: handleClaudeRequest and its stream updater
    updater,        \* the closure of createStreamUpdater
    req,            \* the position of handleClaudeRequest
    inflight,       \* the chat.update calls on the progress message not yet settled
    pushLog,        \* history: the pushes of the updater
    \* ---- the text helpers called on their own
    textArg,        \* the arguments of the call
    textResult      \* what the call returned

cacheVars == <<processed, cacheTimers, nextId, gen>>
cacheHistory == <<lastAdmit, sweeps, calls, lastCall>>
handlerVars == <<lastIndex, handlers>>
runVars == <<run, state, child, events, resolutions, signals, lines, heartbeats>>
parserVars == <<ref>>
envVars == <<parentEnv, childEnv>>
updaterVars == <<updater, req, inflight, pushLog>>
textVars == <<textArg, textResult>>
\* what the handlers and the cache leave alone
notHandlers == <<runVars, parserVars, envVars, updaterVars, textVars>>

(***************************************************************************)
(* Bounds of the model.                                                    *)
(***************************************************************************)
NumCalls == 4             \* isDuplicate calls in one behaviour of the cache model
MaxCacheTicks == 3        \* the clock of the cache model stops after this many ticks
NumEvents == 2            \* inbound Slack events in one behaviour of the handler model
MaxHandlerTicks == 2      \* the clock of the handler model stops after this many ticks
MaxLines == 2             \* stdout lines read in one run
MaxRunTicks == 7          \* the clock of the run model stops after this many ticks
MaxParserLines == 3       \* lines fed to the parser on its own
MaxPromptLen == 5         \* length of the prompts given to sanitizePrompt
MaxTextLen == 5           \* length of the texts given to splitMessage
MaxSplitLen == 3          \* the largest maxLen given to splitMessage
MaxRenderEvents == 6      \* events before a body is built in the render model
MaxUpdaterEvents == 3     \* events handed to one stream updater
MaxUpdaterTicks == 3      \* interval callbacks of one stream updater

(***************************************************************************)
(* Text helpers.                                                           *)
(***************************************************************************)
UpperLetters == <<"A", "B", "C", "D", "E", "F", "G", "H", "I", "J", "K", "L", "M",
                  "N", "O", "P", "Q", "R", "S", "T", "U", "V", "W", "X", "Y", "Z">>
LowerLetters == <<"a", "b", "c", "d", "e", "f", "g", "h", "i", "j", "k", "l", "m",
                  "n", "o", "p", "q", "r", "s", "t", "u", "v", "w", "x", "y", "z">>
Digits == {"0", "1", "2", "3", "4", "5", "6", "7", "8", "9"}
Whitespace == {" ", "\n", "\t"}

Min(S) == CHOOSE x \in S : \A y \in S : x <= y

\* the i flag of a regular expression compares letters without case
ToLower(c) ==
    IF \E i \in 1..26 : UpperLetters[i] = c
    THEN LowerLetters[CHOOSE i \in 1..26 : UpperLetters[i] = c]
    ELSE c

\* String.prototype.trim
RECURSIVE TrimStart(_)
TrimStart(s) ==
    IF s # <<>> /\ Head(s) \in Whitespace THEN TrimStart(Tail(s)) ELSE s

RECURSIVE TrimEnd(_)
TrimEnd(s) ==
    IF s # <<>> /\ s[Len(s)] \in Whitespace
    THEN TrimEnd(SubSeq(s, 1, Len(s) - 1))
    ELSE s

Trim(s) == TrimEnd(TrimStart(s))

(***************************************************************************)
(* slack-helpers.ts: stripMention                                          *)
(***************************************************************************)
\* the length of the match of /<@[A-Z0-9]+>/ at the head of s, 0 when none
MentionLen(s) ==
    IF Len(s) >= 4 /\ s[1] = "<" /\ s[2] = "@"
    THEN LET isId(c) == c \in Digits \/ (\E i \in 1..26 : UpperLetters[i] = c)
             ends == {e \in 4..Len(s) :
                        /\ s[e] = ">"
                        /\ \A j \in 3..(e - 1) : isId(s[j])}
         IN  IF ends = {} THEN 0 ELSE Min(ends)
    ELSE 0

RECURSIVE RemoveMentions(_)
RemoveMentions(s) ==
    IF s = <<>> THEN <<>>
    ELSE IF MentionLen(s) > 0
         THEN RemoveMentions(SubSeq(s, MentionLen(s) + 1, Len(s)))
         ELSE <<Head(s)>> \o RemoveMentions(Tail(s))

stripMention(text) == Trim(RemoveMentions(text))

(***************************************************************************)
(* claude.ts: FORBIDDEN_PATTERNS and validatePrompt                        *)
(***************************************************************************)
MAX_PROMPT_LENGTH == 10000

\* the alternatives of /--dangerously|--system-prompt|--unsafe|--allowedTools|--disallowedTools/gi
FORBIDDEN_PATTERNS ==
    << <<"-", "-", "d", "a", "n", "g", "e", "r", "o", "u", "s", "l", "y">>,
       <<"-", "-", "s", "y", "s", "t", "e", "m", "-", "p", "r", "o", "m", "p", "t">>,
       <<"-", "-", "u", "n", "s", "a", "f", "e">>,
       <<"-", "-", "a", "l", "l", "o", "w", "e", "d", "T", "o", "o", "l", "s">>,
       <<"-", "-", "d", "i", "s", "a", "l", "l", "o", "w", "e", "d", "T", "o", "o", "l", "s">> >>

\* alternative p matches s at the 0-based offset i
MatchesAt(s, i, p) ==
    /\ i + Len(p) <= Len(s)
    /\ \A j \in 1..Len(p) : ToLower(s[i + j]) = ToLower(p[j])

AlternativesAt(s, i) ==
    {n \in 1..Len(FORBIDDEN_PATTERNS) : MatchesAt(s, i, FORBIDDEN_PATTERNS[n])}

\* RegExp.prototype.test of a regex with the g flag: the search starts at
\* lastIndex, a match leaves lastIndex after it, a failure resets it to 0
RegexTest(s, li) ==
    IF li > Len(s) THEN [found |-> FALSE, lastIndex |-> 0]
    ELSE LET at == {i \in li..Len(s) : AlternativesAt(s, i) # {}}
         IN  IF at = {} THEN [found |-> FALSE, lastIndex |-> 0]
             ELSE LET i == Min(at)
                      n == Min(AlternativesAt(s, i))
                  IN  [found |-> TRUE, lastIndex |-> i + Len(FORBIDDEN_PATTERNS[n])]

\* validatePrompt: the rejection reason ("null" for none) and the regex's new lastIndex
validatePrompt(prompt, li) ==
    LET r == RegexTest(prompt, li)
    IN  [error |-> IF r.found THEN "forbidden"
                   ELSE IF Len(prompt) > MAX_PROMPT_LENGTH THEN "too_long"
                   ELSE "null",
         lastIndex |-> r.lastIndex]

\* whether a prompt contains a forbidden pattern anywhere
ContainsForbidden(s) == \E i \in 0..Len(s) : AlternativesAt(s, i) # {}

(***************************************************************************)
(* index.ts: the de-duplication cache                                      *)
(***************************************************************************)
\* the ceiling of the cache; 10000 in the source, scaled down so that a
\* behaviour of NumEvents events can exceed it
MAX_CACHE_SIZE == 1
EXPIRY_MS == 5 * 60 * 1000
CACHE_TICK_MS == EXPIRY_MS \div 2

Keys == {"C1-1", "C1-2"}          \* `${event.channel}-${event.ts}`

\* the sweep, were it to delete an entry that is exactly as old as the window
Sweep_Inclusive(cache, t) ==
    LET cutoff == t - EXPIRY_MS
        kept == {k \in DOMAIN cache : ~(cache[k] <= cutoff)}
    IN  [k \in kept |-> cache[k]]

\* the sweep of isDuplicate: every entry older than the window is deleted
Sweep(cache, t) ==
    LET cutoff == t - EXPIRY_MS
        kept == {k \in DOMAIN cache : ~(cache[k] < cutoff)}
    IN  [k \in kept |-> cache[k]]

\* isDuplicate, were a hit to refresh the entry's insertion time
isDuplicate_RefreshOnHit(key, cache, timers, t, id) ==
    LET set == [k \in DOMAIN cache \cup {key} |-> IF k = key THEN t ELSE cache[k]]
        over == Cardinality(DOMAIN set) > MAX_CACHE_SIZE
    IN  IF key \in DOMAIN cache
        THEN [ret |-> TRUE, processed |-> set, timers |-> timers, swept |-> FALSE]
        ELSE [ret |-> FALSE,
              processed |-> IF over THEN Sweep(set, t) ELSE set,
              timers |-> timers \cup {[id |-> id, key |-> key, due |-> t + EXPIRY_MS]},
              swept |-> over]

\* isDuplicate, were an entry as old as the window to count as absent
\* although its timer has not fired (a soft expiry)
isDuplicate_SoftExpiry(key, cache, timers, t, id) ==
    LET set == [k \in DOMAIN cache \cup {key} |-> IF k = key THEN t ELSE cache[k]]
        over == Cardinality(DOMAIN set) > MAX_CACHE_SIZE
    IN  IF key \in DOMAIN cache /\ t - cache[key] < EXPIRY_MS
        THEN [ret |-> TRUE, processed |-> cache, timers |-> timers, swept |-> FALSE]
        ELSE [ret |-> FALSE,
              processed |-> IF over THEN Sweep(set, t) ELSE set,
              timers |-> timers \cup {[id |-> id, key |-> key, due |-> t + EXPIRY_MS]},
              swept |-> over]

\* isDuplicate(key), called at time t with the cache and the pending expiry
\* timers; id names the timer it schedules
isDuplicate(key, cache, timers, t, id) ==
    IF key \in DOMAIN cache
    THEN [ret |-> TRUE, processed |-> cache, timers |-> timers, swept |-> FALSE]
    ELSE LET set == [k \in DOMAIN cache \cup {key} |->
                        IF k = key THEN t ELSE cache[k]]
             over == Cardinality(DOMAIN set) > MAX_CACHE_SIZE
         IN  [ret |-> FALSE,
              processed |-> IF over THEN Sweep(set, t) ELSE set,
              timers |-> timers \cup {[id |-> id, key |-> key, due |-> t + EXPIRY_MS]},
              swept |-> over]

\* config.ts: isUserAllowed, under a config.json that allows one user
allowedUserIds == {"U1"}

isUserAllowed(userId) ==
    IF allowedUserIds = {} THEN TRUE ELSE userId \in allowedUserIds

(***************************************************************************)
(* claude.ts: the values of a runClaudeStream call that has not been made  *)
(***************************************************************************)
\* exitCode null (the exit codes of a process are 0..255)
NullCode == -1

InitialState == [accumulatedText |-> << >>, currentToolName |-> "null",
                 isThinking |-> FALSE]

\* a timer is unset, pending (with its due time), fired or cleared
Unset == [st |-> "unset", due |-> 0]

IdleRun == [pc |-> "idle", timeoutMs |-> 0, startTime |-> 0, killed |-> FALSE,
            killAttempted |-> FALSE, resultResolved |-> FALSE,
            timer |-> Unset, killTimer |-> Unset, heartbeat |-> Unset,
            spawnTimer |-> Unset, exitListener |-> FALSE]

\* pid: whether a process was spawned
NoChild == [st |-> "none", code |-> NullCode, pid |-> FALSE]

\* the parser was fed nothing
IdleRef == [state |-> InitialState, events |-> << >>, lost |-> FALSE,
            clean |-> TRUE, last |-> [raw |-> "none"], delivered |-> FALSE,
            primary |-> << >>, secondary |-> << >>]

\* the empty environment, and no environment built for a child
NoEnv == << >>
NoChildEnv == [built |-> FALSE, env |-> NoEnv]

\* no handleClaudeRequest call is modelled
NoUpdater == [accumulatedText |-> << >>, statusLine |-> <<"none">>,
              toolHistory |-> << >>, dirty |-> FALSE, flushing |-> FALSE,
              stopped |-> FALSE, interval |-> "unset"]
IdleReq == [pc |-> "idle", completes |-> 0]
\* progress: the pushes of the updater in flight; final: 0, or which attempt
\* of the final update is in flight
NoneInFlight == [progress |-> 0, final |-> 0]
NoBody == [history |-> << >>, status |-> <<"none">>, preview |-> << >>]
\* missed: "missed" once an event has changed the content while a push was in
\* flight, "sent" when the push that started last started after such an event
NoPushLog == [started |-> 0, lastBody |-> NoBody, lastOutcome |-> "none",
              ticks |-> 0, lastTick |-> "none", fed |-> 0, landed |-> << >>,
              missed |-> "none"]

\* no text helper is called on its own
NoTextCall == [text |-> << >>, maxLen |-> 0]
NoTextResult == [done |-> FALSE, out |-> << >>]

\* neither the parser on its own, nor the environment, nor handleClaudeRequest,
\* nor a text helper on its own is modelled
OthersIdle ==
    /\ ref = IdleRef
    /\ parentEnv = NoEnv
    /\ childEnv = NoChildEnv
    /\ updater = NoUpdater
    /\ req = IdleReq
    /\ inflight = NoneInFlight
    /\ pushLog = NoPushLog
    /\ textArg = NoTextCall
    /\ textResult = NoTextResult

(***************************************************************************)
(* The cache on its own: isDuplicate calls, expiry timers and the clock    *)
(***************************************************************************)
NoCall == [key |-> "none", ret |-> FALSE]

CacheInit ==
    /\ now = 0
    /\ processed = << >>
    /\ cacheTimers = {}
    /\ nextId = 1
    /\ gen = [k \in Keys |-> 0]
    /\ lastAdmit = [k \in Keys |-> -1]
    /\ sweeps = 0
    /\ calls = 0
    /\ lastCall = NoCall

\* no runClaudeStream call is modelled
RunIdle ==
    /\ run = IdleRun
    /\ state = InitialState
    /\ child = NoChild
    /\ events = << >>
    /\ resolutions = << >>
    /\ signals = << >>
    /\ lines = 0
    /\ heartbeats = 0

\* the effect of one isDuplicate call on the cache, its timers and gen
CacheEffect(d) ==
    /\ processed' = d.processed
    /\ cacheTimers' = d.timers
    /\ nextId' = IF d.timers # cacheTimers THEN nextId + 1 ELSE nextId
    /\ gen' = [k \in Keys |->
                 IF k \in DOMAIN processed /\ k \notin DOMAIN d.processed
                 THEN gen[k] + 1 ELSE gen[k]]

\* isDuplicate(key) is called
Call(key) ==
    /\ calls < NumCalls
    /\ LET d == isDuplicate(key, processed, cacheTimers, now, nextId)
       IN  /\ CacheEffect(d)
           /\ lastAdmit' = IF d.ret THEN lastAdmit ELSE [lastAdmit EXCEPT ![key] = now]
           /\ sweeps' = IF d.swept THEN sweeps + 1 ELSE sweeps
           /\ lastCall' = [key |-> key, ret |-> d.ret]
    /\ calls' = calls + 1
    /\ UNCHANGED <<now, handlerVars, notHandlers>>

\* setTimeout(() => processed.delete(key), 5 * 60 * 1000) fires, at its due
\* time or later
ExpiryTimerFires(tm) ==
    /\ tm \in cacheTimers
    /\ now >= tm.due
    /\ cacheTimers' = cacheTimers \ {tm}
    /\ processed' = [k \in DOMAIN processed \ {tm.key} |-> processed[k]]
    /\ gen' = [gen EXCEPT ![tm.key] = IF tm.key \in DOMAIN processed THEN @ + 1 ELSE @]
    /\ UNCHANGED <<now, nextId, cacheHistory, handlerVars, notHandlers>>

CacheTick ==
    /\ now + CACHE_TICK_MS <= MaxCacheTicks * CACHE_TICK_MS
    /\ now' = now + CACHE_TICK_MS
    /\ UNCHANGED <<cacheVars, cacheHistory, handlerVars, notHandlers>>

(***************************************************************************)
(* index.ts: the app_mention and message (DM) handlers                     *)
(***************************************************************************)
NoUser == "undefined"
Users == {"U1", "U2", NoUser}      \* event.user
\* app_mention events, message events of a user's DM, and message events that
\* are no user DM (another channel type, a bot message)
Kinds == {"mention", "dm", "other"}

\* event.text
Texts ==
    { <<"<", "@", "U", "1", ">", " ", "h", "i">>,
      <<"<", "@", "U", "1", ">">>,
      <<"<", "@", "U", "1", ">", " ", "g", "o", " ", "-", "-", "u", "n", "s", "a", "f", "e">>,
      <<"-", "-", "U", "n", "s", "a", "f", "e">>,
      <<" ">> }

\* the prompt that a handler hands to validatePrompt
PromptOf(kind, text) == IF kind = "mention" THEN stripMention(text) ELSE text

\* whether the handler finds the prompt empty
PromptEmpty(kind, text) ==
    IF kind = "mention" THEN stripMention(text) = <<>> ELSE Trim(text) = <<>>

\* the text-dependent gates of the handlers, tabulated over the inputs
LastIndexes == 0..Len(FORBIDDEN_PATTERNS[5]) + 9
Prompts == {PromptOf(kind, text) : kind \in Kinds, text \in Texts}
ValidateTable == [p \in Prompts, li \in LastIndexes |-> validatePrompt(p, li)]
ForbiddenTable == [p \in Prompts |-> ContainsForbidden(p)]
PromptTable == [kind \in Kinds, text \in Texts |->
                  [prompt |-> PromptOf(kind, text), empty |-> PromptEmpty(kind, text)]]

\* the text of a posted message: none, or `\u26a0\ufe0f ${validationError}`
NoMessage == << >>
Warning(reason) == <<"warning", reason>>

\* what a handler's event was when it entered (a record kept while the
\* handler awaits the post of its answer or goes on to its run): its user,
\* whether its key was in the cache, whether its prompt was empty, and what
\* validatePrompt returned for its prompt if the event came as far as that
\* call
NoFacts == [user |-> NoUser, cached |-> FALSE, empty |-> FALSE,
            verr |-> "not_called"]

FactsOf(kind, key, user, text) ==
    LET cached == key \in DOMAIN processed
        empty == PromptTable[kind, text].empty
        reached == /\ ~cached
                   /\ user # NoUser
                   /\ isUserAllowed(user)
                   /\ ~empty
    IN  [user |-> user, cached |-> cached, empty |-> empty,
         verr |-> IF reached
                  THEN ValidateTable[PromptTable[kind, text].prompt, lastIndex].error
                  ELSE "not_called"]

\* the head of a handler, were it to skip validatePrompt
HandlerEntry_NoValidation(kind, key, user, text) ==
    LET dup == isDuplicate(key, processed, cacheTimers, now, nextId)
        noDup == [ret |-> FALSE, processed |-> processed, timers |-> cacheTimers,
                  swept |-> FALSE]
        p == PromptTable[kind, text]
    IN  IF kind = "other"
        THEN [outcome |-> "filtered", called |-> FALSE, dup |-> noDup, li |-> lastIndex,
              post |-> NoMessage]
        ELSE IF dup.ret
        THEN [outcome |-> "dup", called |-> TRUE, dup |-> dup, li |-> lastIndex,
              post |-> NoMessage]
        ELSE IF user = NoUser
        THEN [outcome |-> "nouser", called |-> TRUE, dup |-> dup, li |-> lastIndex,
              post |-> NoMessage]
        ELSE IF ~isUserAllowed(user)
        THEN [outcome |-> "denied", called |-> TRUE, dup |-> dup, li |-> lastIndex,
              post |-> <<"denied">>]
        ELSE IF p.empty
        THEN [outcome |-> "empty", called |-> TRUE, dup |-> dup, li |-> lastIndex,
              post |-> IF kind = "mention" THEN <<"empty">> ELSE NoMessage]
        ELSE [outcome |-> "pass", called |-> TRUE, dup |-> dup, li |-> lastIndex,
              post |-> NoMessage]

\* The synchronous head of a handler, from its entry to its first await:
\* the gates in the order of the code.  outcome names the gate that stopped
\* the event ("pass" when none did), called whether isDuplicate was called,
\* dup what isDuplicate did, li the new lastIndex of FORBIDDEN_PATTERNS.
HandlerEntry(kind, key, user, text) ==
    LET dup == isDuplicate(key, processed, cacheTimers, now, nextId)
        noDup == [ret |-> FALSE, processed |-> processed, timers |-> cacheTimers,
                  swept |-> FALSE]
        p == PromptTable[kind, text]
        v == ValidateTable[p.prompt, lastIndex]
    IN  IF kind = "other"
        THEN [outcome |-> "filtered", called |-> FALSE, dup |-> noDup, li |-> lastIndex,
              post |-> NoMessage]
        ELSE IF dup.ret
        THEN [outcome |-> "dup", called |-> TRUE, dup |-> dup, li |-> lastIndex,
              post |-> NoMessage]
        ELSE IF user = NoUser
        THEN [outcome |-> "nouser", called |-> TRUE, dup |-> dup, li |-> lastIndex,
              post |-> NoMessage]
        ELSE IF ~isUserAllowed(user)
        THEN [outcome |-> "denied", called |-> TRUE, dup |-> dup, li |-> lastIndex,
              post |-> <<"denied">>]
        ELSE IF p.empty
        THEN [outcome |-> "empty", called |-> TRUE, dup |-> dup, li |-> lastIndex,
              post |-> IF kind = "mention" THEN <<"empty">> ELSE NoMessage]
        ELSE IF v.error # "null"
        THEN [outcome |-> "invalid", called |-> TRUE, dup |-> dup, li |-> v.lastIndex,
              post |-> Warning(v.error)]
        ELSE [outcome |-> "pass", called |-> TRUE, dup |-> dup, li |-> v.lastIndex,
              post |-> NoMessage]

\* where the handler is after its synchronous head
PcAfterEntry(kind, outcome) ==
    CASE outcome \in {"filtered", "dup", "nouser"} -> "done"
      [] outcome = "denied" -> "await_post"
      [] outcome = "empty" -> IF kind = "mention" THEN "await_post" ELSE "done"
      [] outcome = "invalid" -> "await_post"
      [] outcome = "pass" -> "await_thinking"

H == 1..NumEvents

\* a handler invocation that has not started
NewHandler == [pc |-> "new", outcome |-> "none", key |-> "none", gen |-> 0,
               bad |-> FALSE, ev |-> NoFacts, msg |-> NoMessage]

InFlight(h) == handlers[h].pc \notin {"new", "done"}

HandlersInit ==
    /\ lastIndex = 0
    /\ handlers = [h \in H |-> NewHandler]

\* An inbound event is delivered: the handler runs up to its first await.
Receive(h, kind, key, user, text) ==
    /\ handlers[h].pc = "new"
    /\ \A g \in H : g < h => handlers[g].pc # "new"
    /\ LET e == HandlerEntry(kind, key, user, text)
           pc == PcAfterEntry(kind, e.outcome)
       IN  /\ CacheEffect(e.dup)
           /\ lastIndex' = e.li
           /\ handlers' = [handlers EXCEPT ![h] =
                 [pc |-> pc,
                  outcome |-> e.outcome,
                  key |-> IF e.called THEN key ELSE "none",
                  gen |-> IF e.called THEN gen[key] ELSE 0,
                  bad |-> e.outcome \in {"invalid", "pass"}
                          /\ ForbiddenTable[PromptTable[kind, text].prompt],
                  ev |-> IF pc = "done" THEN NoFacts ELSE FactsOf(kind, key, user, text),
                  msg |-> IF pc = "done" THEN NoMessage ELSE e.post]]
    /\ UNCHANGED <<now, cacheHistory, notHandlers>>

\* The awaited chat.postMessage of a rejection returns or throws; a throw is
\* caught and answered with the generic error message.
PostDone(h, ok) ==
    /\ handlers[h].pc = "await_post"
    /\ handlers' = [handlers EXCEPT ![h] =
                      [@ EXCEPT !.pc = IF ok THEN "done" ELSE "await_errpost",
                                !.ev = NoFacts,
                                !.msg = NoMessage]]
    /\ UNCHANGED <<now, cacheVars, cacheHistory, lastIndex, notHandlers>>

\* handleClaudeRequest: the initial "thinking" message is posted; with its ts
\* the stream updater is created and runClaudeStream is called
ThinkingPosted(h, res) ==
    /\ handlers[h].pc = "await_thinking"
    /\ handlers' = [handlers EXCEPT ![h] =
                      [@ EXCEPT !.pc = CASE res = "ts" -> "running"
                                         [] res = "no_ts" -> "done"
                                         [] res = "throw" -> "await_errpost",
                                !.ev = IF res = "ts" THEN @ ELSE NoFacts]]
    /\ UNCHANGED <<now, cacheVars, cacheHistory, lastIndex, notHandlers>>

\* runClaudeStream resolved and the result was sent, or sending threw
RunDone(h, ok) ==
    /\ handlers[h].pc = "running"
    /\ handlers' = [handlers EXCEPT ![h] =
                      [@ EXCEPT !.pc = IF ok THEN "done" ELSE "await_errpost",
                                !.ev = NoFacts,
                                !.msg = NoMessage]]
    /\ UNCHANGED <<now, cacheVars, cacheHistory, lastIndex, notHandlers>>

\* the generic error message of the catch block was posted (or that threw too)
ErrorPosted(h) ==
    /\ handlers[h].pc = "await_errpost"
    /\ handlers' = [handlers EXCEPT ![h].pc = "done"]
    /\ UNCHANGED <<now, cacheVars, cacheHistory, lastIndex, notHandlers>>

HandlerTick ==
    /\ now + CACHE_TICK_MS <= MaxHandlerTicks * CACHE_TICK_MS
    /\ now' = now + CACHE_TICK_MS
    /\ UNCHANGED <<cacheVars, cacheHistory, handlerVars, notHandlers>>

vars == <<now, processed, cacheTimers, nextId, gen, lastAdmit, sweeps, calls,
          lastCall, lastIndex, handlers, run, state, child, events, resolutions,
          signals, lines, heartbeats, ref, parentEnv, childEnv, updater, req,
          inflight, pushLog, textArg, textResult>>

(***************************************************************************)
(* Specifications                                                          *)
(***************************************************************************)
CacheNext ==
    \/ \E key \in Keys : Call(key)
    \/ \E tm \in cacheTimers : ExpiryTimerFires(tm)
    \/ CacheTick

\* the de-duplication cache under any calls, timer delays and clock
Init == CacheInit /\ HandlersInit /\ RunIdle /\ OthersIdle

Spec == Init /\ [][CacheNext]_vars

HandlersNext ==
    \/ \E h \in H, kind \in Kinds, key \in Keys, user \in Users, text \in Texts :
          Receive(h, kind, key, user, text)
    \/ \E h \in H, ok \in BOOLEAN : PostDone(h, ok)
    \/ \E h \in H, res \in {"ts", "no_ts", "throw"} : ThinkingPosted(h, res)
    \/ \E h \in H, ok \in BOOLEAN : RunDone(h, ok)
    \/ \E h \in H : ErrorPosted(h)
    \/ \E tm \in cacheTimers : ExpiryTimerFires(tm)
    \/ HandlerTick

\* the handlers of inbound events, interleaving at their awaits
SpecHandlers == Init /\ [][HandlersNext]_vars

(***************************************************************************)
(* Properties of the handlers and of the de-duplication cache              *)
(***************************************************************************)
\* the handler's call of isDuplicate returned false
Passed(h) == handlers[h].outcome \notin {"none", "filtered", "dup"}

\* C3: every validatePrompt call whose prompt contains a forbidden pattern
\* returns a rejection reason, whatever was validated before, so the handler
\* of such a prompt answers with the reason and starts no run.
C3_ForbiddenAlwaysRejected ==
    \A h \in H : handlers[h].bad => handlers[h].outcome = "invalid"

\* a prompt with a forbidden pattern was rejected
C3_Witness ==
    \E h \in H : handlers[h].bad /\ handlers[h].outcome = "invalid"

\* C4: isDuplicate admits a key (returns false for it) at most once within
\* any window of EXPIRY_MS, for any interleaving of calls, sweeps and
\* expiry timers that fire at their due time or later.
C4_AdmitOncePerWindow ==
    [][\A k \in Keys :
         (calls' = calls + 1 /\ lastCall'.key = k /\ ~lastCall'.ret
            /\ lastAdmit[k] >= 0)
         => now - lastAdmit[k] >= EXPIRY_MS]_vars

\* a key was admitted a second time
C4_Witness ==
    \E k \in Keys : lastCall = [key |-> k, ret |-> FALSE] /\ gen[k] > 0

\* C5: an isDuplicate call with a key that is in the cache returns true and
\* leaves the cache as it was: the same keys with the same insertion times,
\* no sweep, no new expiry timer.
C5_DuplicateLeavesCacheUnchanged ==
    [][(calls' = calls + 1 /\ lastCall'.key \in DOMAIN processed)
       => /\ lastCall'.ret
          /\ processed' = processed
          /\ cacheTimers' = cacheTimers
          /\ sweeps' = sweeps]_vars

\* a call found its key in the cache, at a later time than its insertion
C5_Witness ==
    /\ lastCall.ret
    /\ lastCall.key \in DOMAIN processed
    /\ processed[lastCall.key] < now

\* C6 as stated: of the handlers in flight for events with the same key,
\* only one passed the isDuplicate gate.
C6_OnePassAmongConcurrent ==
    \A h1, h2 \in H :
        (h1 # h2 /\ InFlight(h1) /\ InFlight(h2) /\ Passed(h1) /\ Passed(h2))
        => handlers[h1].key # handlers[h2].key

\* C6, amended: among the handlers of events with the same key, exactly one
\* passes the isDuplicate gate for as long as the key's cache entry is not
\* removed by an expiry timer or a sweep (gen counts the removals): no two
\* handlers pass on the same entry, a dropped handler was dropped because of
\* a handler that passed on that entry, and no step of a handler removes the
\* entry of a handler that passed.
C6_OnePassPerCacheEntry ==
    /\ \A h1, h2 \in H :
          (h1 # h2 /\ Passed(h1) /\ Passed(h2)
             /\ handlers[h1].key = handlers[h2].key)
          => handlers[h1].gen # handlers[h2].gen
    /\ \A h \in H :
          handlers[h].outcome = "dup"
          => \E g \in H : /\ g # h
                          /\ Passed(g)
                          /\ handlers[g].key = handlers[h].key
                          /\ handlers[g].gen = handlers[h].gen
    /\ \A h \in H :
          (Passed(h) /\ gen[handlers[h].key] = handlers[h].gen)
          => handlers[h].key \in DOMAIN processed

\* an event was dropped while the handler that passed with its key is in flight
C6_Witness ==
    \E h1, h2 \in H :
        /\ h1 # h2
        /\ InFlight(h1) /\ Passed(h1)
        /\ handlers[h2].outcome = "dup"
        /\ handlers[h2].key = handlers[h1].key

\* C22: in the app_mention handler and in the DM handler a run starts only
\* for an event that passed every gate (its key was not in the cache, its
\* user id is present and allowed, its prompt is not empty, validatePrompt
\* returned no error), and an event for which validatePrompt returns an error
\* is answered with a message that carries the reason and starts no run.
C22_RunOnlyAfterGates ==
    /\ \A h \in H :
          handlers[h].pc \in {"await_thinking", "running"}
          => /\ ~handlers[h].ev.cached
             /\ handlers[h].ev.user # NoUser
             /\ isUserAllowed(handlers[h].ev.user)
             /\ ~handlers[h].ev.empty
             /\ handlers[h].ev.verr = "null"
    /\ \A h \in H :
          handlers[h].ev.verr \notin {"not_called", "null"}
          => /\ handlers[h].pc = "await_post"
             /\ handlers[h].msg = Warning(handlers[h].ev.verr)

\* an event started a run while another was answered with the reason of its
\* rejection
C22_Witness ==
    \E h1, h2 \in H :
        /\ handlers[h1].pc = "running"
        /\ handlers[h1].ev.verr = "null"
        /\ handlers[h2].pc = "await_post"
        /\ handlers[h2].msg = Warning("forbidden")

\* C29: whenever an isDuplicate call inserts a new key and the cache then
\* has more than MAX_CACHE_SIZE entries, a sweep runs in that call; after the
\* call no entry inserted more than EXPIRY_MS before it remains, and every
\* entry that is not that old, the new one included, is kept as it was.
C29_SweepRemovesExactlyTheOld ==
    [][(/\ calls' = calls + 1
        /\ lastCall'.key \notin DOMAIN processed
        /\ Cardinality(DOMAIN processed) + 1 > MAX_CACHE_SIZE)
       => /\ sweeps' = sweeps + 1
          /\ \A k \in DOMAIN processed' : processed'[k] >= now - EXPIRY_MS
          /\ lastCall'.key \in DOMAIN processed'
          /\ processed'[lastCall'.key] = now
          /\ \A k \in DOMAIN processed :
                processed[k] >= now - EXPIRY_MS
                => k \in DOMAIN processed' /\ processed'[k] = processed[k]]_vars

\* a call swept an entry whose expiry timer had not fired
C29_Witness ==
    \E k \in Keys :
        /\ sweeps > 0
        /\ lastCall.key # k /\ ~lastCall.ret
        /\ k \notin DOMAIN processed
        /\ \E tm \in cacheTimers : tm.key = k /\ now > tm.due

\* C30: the cache is bounded: after every isDuplicate call it has at most
\* MAX_CACHE_SIZE entries, for any number of distinct keys and any delay of
\* the expiry timers.
C30_CacheBounded ==
    Cardinality(DOMAIN processed) <= MAX_CACHE_SIZE

\* a call swept, and the cache is still over its ceiling
C30_Witness ==
    /\ sweeps > 0
    /\ ~lastCall.ret
    /\ lastCall.key \in DOMAIN processed
    /\ Cardinality(DOMAIN processed) > MAX_CACHE_SIZE

(***************************************************************************)
(* claude.ts: parseStreamLine                                              *)
(*                                                                         *)
(* A parsed line is a record that has the fields the JSON object has.      *)
(***************************************************************************)
Has(r, f) == f \in DOMAIN r
TypeOf(r) == IF Has(r, "type") THEN r.type ELSE "undefined"

\* "(빈 응답)", the output of a run that produced no text
EMPTY_RESPONSE == <<"(", "e", "m", "p", "t", "y", ")">>
\* "도구", the name reported for a tool result when no tool is tracked
GENERIC_TOOL == "tool"

NoEvents(st) == [state |-> st, events |-> << >>]

\* type === "stream_event", were a text_delta to replace the accumulated text
ParseStreamEvent_Overwrite(parsed, st) ==
    IF ~Has(parsed, "event") THEN NoEvents(st)
    ELSE LET event == parsed.event IN
    IF TypeOf(event) = "content_block_delta" /\ Has(event, "delta")
       /\ TypeOf(event.delta) = "text_delta"
    THEN [state |-> [st EXCEPT !.accumulatedText = event.delta.text,
                              !.isThinking = FALSE],
          events |-> << [type |-> "text_delta", text |-> event.delta.text,
                         accumulated |-> event.delta.text] >>]
    ELSE NoEvents(st)

\* type === "stream_event", were every thinking block to be announced
ParseStreamEvent_NoLatch(parsed, st) ==
    IF ~Has(parsed, "event") THEN NoEvents(st)
    ELSE LET event == parsed.event IN
    IF TypeOf(event) = "content_block_start"
    THEN IF ~Has(event, "content_block") THEN NoEvents(st)
         ELSE LET block == event.content_block IN
              IF TypeOf(block) = "thinking"
              THEN [state |-> [st EXCEPT !.isThinking = TRUE],
                    events |-> << [type |-> "thinking"] >>]
              ELSE IF TypeOf(block) = "tool_use"
              THEN LET toolName == IF Has(block, "name") /\ block.name # ""
                                   THEN block.name ELSE "unknown_tool"
                   IN  [state |-> [st EXCEPT !.currentToolName = toolName],
                        events |-> << [type |-> "tool_use", toolName |-> toolName] >>]
              ELSE IF TypeOf(block) = "text"
              THEN [state |-> [st EXCEPT !.isThinking = FALSE], events |-> << >>]
              ELSE NoEvents(st)
    ELSE IF TypeOf(event) = "content_block_delta"
    THEN IF ~Has(event, "delta") THEN NoEvents(st)
         ELSE LET delta == event.delta IN
              IF TypeOf(delta) = "text_delta"
              THEN LET acc == st.accumulatedText \o delta.text
                   IN  [state |-> [st EXCEPT !.accumulatedText = acc,
                                             !.isThinking = FALSE],
                        events |-> << [type |-> "text_delta", text |-> delta.text,
                                       accumulated |-> acc] >>]
              ELSE NoEvents(st)
    ELSE NoEvents(st)

\* type === "stream_event"
ParseStreamEvent(parsed, st) ==
    IF ~Has(parsed, "event") THEN NoEvents(st)
    ELSE LET event == parsed.event IN
    IF TypeOf(event) = "content_block_start"
    THEN IF ~Has(event, "content_block") THEN NoEvents(st)
         ELSE LET block == event.content_block IN
              IF TypeOf(block) = "thinking" /\ ~st.isThinking
              THEN [state |-> [st EXCEPT !.isThinking = TRUE],
                    events |-> << [type |-> "thinking"] >>]
              ELSE IF TypeOf(block) = "tool_use"
              THEN LET toolName == IF Has(block, "name") /\ block.name # ""
                                   THEN block.name ELSE "unknown_tool"
                   IN  [state |-> [st EXCEPT !.currentToolName = toolName],
                        events |-> << [type |-> "tool_use", toolName |-> toolName] >>]
              ELSE IF TypeOf(block) = "text"
              THEN [state |-> [st EXCEPT !.isThinking = FALSE], events |-> << >>]
              ELSE NoEvents(st)
    ELSE IF TypeOf(event) = "content_block_delta"
    THEN IF ~Has(event, "delta") THEN NoEvents(st)
         ELSE LET delta == event.delta IN
              IF TypeOf(delta) = "text_delta"
              THEN LET acc == st.accumulatedText \o delta.text
                   IN  [state |-> [st EXCEPT !.accumulatedText = acc,
                                             !.isThinking = FALSE],
                        events |-> << [type |-> "text_delta", text |-> delta.text,
                                       accumulated |-> acc] >>]
              ELSE NoEvents(st)
    ELSE NoEvents(st)

\* type === "assistant", were every tool_use block to be announced
RECURSIVE ParseAssistantBlocks_NoDedupe(_, _)
ParseAssistantBlocks_NoDedupe(content, st) ==
    IF content = << >> THEN NoEvents(st)
    ELSE LET block == Head(content)
             new == TypeOf(block) = "tool_use" /\ Has(block, "name")
                    /\ block.name # ""
             st1 == IF new THEN [st EXCEPT !.currentToolName = block.name] ELSE st
             ev1 == IF new THEN << [type |-> "tool_use", toolName |-> block.name] >>
                    ELSE << >>
             rest == ParseAssistantBlocks_NoDedupe(Tail(content), st1)
         IN  [state |-> rest.state, events |-> ev1 \o rest.events]

\* type === "assistant": the tool_use blocks of message.content, in order
RECURSIVE ParseAssistantBlocks(_, _)
ParseAssistantBlocks(content, st) ==
    IF content = << >> THEN NoEvents(st)
    ELSE LET block == Head(content)
             new == TypeOf(block) = "tool_use" /\ Has(block, "name")
                    /\ block.name # "" /\ st.currentToolName # block.name
             st1 == IF new THEN [st EXCEPT !.currentToolName = block.name] ELSE st
             ev1 == IF new THEN << [type |-> "tool_use", toolName |-> block.name] >>
                    ELSE << >>
             rest == ParseAssistantBlocks(Tail(content), st1)
         IN  [state |-> rest.state, events |-> ev1 \o rest.events]

ParseAssistant(parsed, st) ==
    IF Has(parsed, "message") /\ Has(parsed.message, "content")
    THEN ParseAssistantBlocks(parsed.message.content, st)
    ELSE NoEvents(st)

\* type === "user", were the tool to stay active after its result
ParseUser_KeepsTool(parsed, st) ==
    IF /\ Has(parsed, "message") /\ Has(parsed.message, "content")
       /\ Len(parsed.message.content) > 0
       /\ TypeOf(parsed.message.content[1]) = "tool_result"
    THEN LET toolName == IF st.currentToolName # "null" THEN st.currentToolName
                         ELSE GENERIC_TOOL
         IN  [state |-> st,
              events |-> << [type |-> "tool_result", toolName |-> toolName] >>]
    ELSE NoEvents(st)

\* type === "user": a tool result
ParseUser(parsed, st) ==
    IF /\ Has(parsed, "message") /\ Has(parsed.message, "content")
       /\ Len(parsed.message.content) > 0
       /\ TypeOf(parsed.message.content[1]) = "tool_result"
    THEN LET toolName == IF st.currentToolName # "null" THEN st.currentToolName
                         ELSE GENERIC_TOOL
             timed == Has(parsed, "tool_use_result")
                      /\ Has(parsed.tool_use_result, "durationSeconds")
             ev == IF timed
                   THEN [type |-> "tool_result", toolName |-> toolName,
                         durationSec |-> parsed.tool_use_result.durationSeconds]
                   ELSE [type |-> "tool_result", toolName |-> toolName]
         IN  [state |-> [st EXCEPT !.currentToolName = "null"], events |-> << ev >>]
    ELSE NoEvents(st)

\* the result of a "result" record, were the accumulated text to come first
ResultOfRecord_PrefersAccumulated(parsed, st) ==
    [success |-> ~(Has(parsed, "is_error") /\ parsed.is_error),
     output |-> IF st.accumulatedText # << >> THEN st.accumulatedText
                ELSE IF Has(parsed, "result") /\ parsed.result # << >>
                THEN parsed.result ELSE EMPTY_RESPONSE,
     timedOut |-> FALSE,
     exitCode |-> 0,
     durationMs |-> IF Has(parsed, "duration_ms") THEN parsed.duration_ms ELSE 0]

\* the result that a "result" record makes
ResultOfRecord(parsed, st) ==
    LET resultText == IF Has(parsed, "result") /\ parsed.result # << >>
                      THEN parsed.result
                      ELSE IF st.accumulatedText # << >> THEN st.accumulatedText
                      ELSE EMPTY_RESPONSE
        isError == Has(parsed, "is_error") /\ parsed.is_error
    IN  [success |-> ~isError,
         output |-> resultText,
         timedOut |-> FALSE,
         exitCode |-> 0,
         durationMs |-> IF Has(parsed, "duration_ms") THEN parsed.duration_ms ELSE 0]

\* type === "result"
ParseResult(parsed, st) ==
    [state |-> st,
     events |-> << [type |-> "complete", result |-> ResultOfRecord(parsed, st)] >>]

\* parseStreamLine on a line that JSON.parse accepts: the new parser state
\* and the events handed to onEvent, in order
parseStreamLine(parsed, st) ==
    CASE TypeOf(parsed) = "stream_event" -> ParseStreamEvent(parsed, st)
      [] TypeOf(parsed) = "assistant" -> ParseAssistant(parsed, st)
      [] TypeOf(parsed) = "user" -> ParseUser(parsed, st)
      [] TypeOf(parsed) = "result" -> ParseResult(parsed, st)
      [] OTHER -> NoEvents(st)

\* a stdout line: blank, not JSON, or a JSON object
BlankLine == [raw |-> "blank"]
GarbageLine == [raw |-> "garbage"]
Json(parsed) == [raw |-> "json", parsed |-> parsed]

\* the line handler up to the events: blank lines are dropped, a line that
\* JSON.parse rejects is skipped
ParseLine(line, st) ==
    IF line.raw = "json" THEN parseStreamLine(line.parsed, st) ELSE NoEvents(st)

(***************************************************************************)
(* claude.ts: runClaudeStream                                              *)
(***************************************************************************)
KILL_GRACE_MS == 5000         \* the delay of killTimer
HEARTBEAT_MS == 30000         \* the period of the heartbeat
SPAWN_TIMEOUT_EXTRA_MS == 5000 \* spawn's option timeout: timeoutMs + 5000
RUN_TICK_MS == KILL_GRACE_MS
Timeouts == {5000, 10000}     \* timeoutMs
\* the code with which 'close' follows the 'error' of a failed spawn (-ENOENT)
SpawnErrno == -2

\* "Claude CLI 실행 실패: ..." and "프로세스 오류: ..."
SPAWN_FAILED == <<"s", "p", "a", "w", "n">>
PROCESS_ERROR == <<"e", "r", "r", "o", "r">>

Pending(t) == t.st = "pending"
Due(t) == Pending(t) /\ now >= t.due
Clear(t) == IF Pending(t) THEN [st |-> "cleared", due |-> t.due] ELSE t
Fired(t) == [st |-> "fired", due |-> t.due]
Arm(due) == [st |-> "pending", due |-> due]

\* the stdout lines of the runs that are modelled
RunLines ==
    { BlankLine, GarbageLine,
      Json([type |-> "stream_event",
            event |-> [type |-> "content_block_start",
                       content_block |-> [type |-> "thinking"]]]),
      Json([type |-> "stream_event",
            event |-> [type |-> "content_block_delta",
                       delta |-> [type |-> "text_delta", text |-> <<"H", "i">>]]]),
      Json([type |-> "result", is_error |-> FALSE]),
      Json([type |-> "result", is_error |-> TRUE, result |-> <<"n", "o">>,
            duration_ms |-> 7]) }

RunInit ==
    /\ now = 0
    /\ run = IdleRun
    /\ state = InitialState
    /\ child = NoChild
    /\ events = << >>
    /\ resolutions = << >>
    /\ signals = << >>
    /\ lines = 0
    /\ heartbeats = 0
    /\ processed = << >>
    /\ cacheTimers = {}
    /\ nextId = 1
    /\ gen = [k \in Keys |-> 0]
    /\ lastAdmit = [k \in Keys |-> -1]
    /\ sweeps = 0
    /\ calls = 0
    /\ lastCall = NoCall
    /\ lastIndex = 0
    /\ handlers = [h \in H |-> NewHandler]
    /\ OthersIdle

notRun == <<cacheVars, cacheHistory, handlerVars, parserVars, envVars, updaterVars,
           textVars>>

CompleteEvent(result) == [type |-> "complete", result |-> result]

\* the result of the catch block around spawn
SpawnCatchResult(start) ==
    [success |-> FALSE, output |-> SPAWN_FAILED, timedOut |-> FALSE,
     exitCode |-> NullCode, durationMs |-> now - start]

\* runClaudeStream is called.  spawn throws, or returns a child whose spawn
\* fails asynchronously ('error' on the next tick), or returns a live child.
RunStart(timeoutMs, outcome) ==
    /\ run.pc = "idle"
    /\ IF outcome = "throw"
       THEN /\ run' = [run EXCEPT !.pc = "returned", !.timeoutMs = timeoutMs,
                                  !.startTime = now]
            /\ events' = Append(events, CompleteEvent(SpawnCatchResult(now)))
            /\ resolutions' = Append(resolutions, SpawnCatchResult(now))
            /\ UNCHANGED child
       ELSE /\ run' = [run EXCEPT !.pc = "started", !.timeoutMs = timeoutMs,
                                  !.startTime = now,
                                  !.timer = Arm(now + timeoutMs),
                                  !.heartbeat = Arm(now + HEARTBEAT_MS),
                                  !.spawnTimer =
                                      Arm(now + timeoutMs + SPAWN_TIMEOUT_EXTRA_MS)]
            /\ child' = [st |-> IF outcome = "async_fail" THEN "failing" ELSE "alive",
                         code |-> NullCode, pid |-> outcome = "ok"]
            /\ UNCHANGED <<events, resolutions>>
    /\ UNCHANGED <<now, state, signals, lines, heartbeats, notRun>>

\* the callback that the line handler gives to parseStreamLine, over the
\* events of one line: every event goes to onEvent; the first 'complete'
\* resolves the promise
RECURSIVE Deliver(_, _)
Deliver(evs, acc) ==
    IF evs = << >> THEN acc
    ELSE LET e == Head(evs)
             resolves == e.type = "complete" /\ ~acc.resultResolved
         IN  Deliver(Tail(evs),
                     [events |-> Append(acc.events, e),
                      resultResolved |-> acc.resultResolved \/ resolves,
                      resolutions |-> IF resolves
                                      THEN Append(acc.resolutions, e.result)
                                      ELSE acc.resolutions])

\* rl.on("line"): a line of the child's stdout is read
Line(line) ==
    /\ run.pc = "started"
    /\ child.st \in {"alive", "exited"}
    /\ lines < MaxLines
    /\ lines' = lines + 1
    /\ IF line.raw = "blank"
       THEN UNCHANGED <<state, events, resolutions, run>>
       ELSE LET p == ParseLine(line, state)
                d == Deliver(p.events, [events |-> events,
                                        resultResolved |-> run.resultResolved,
                                        resolutions |-> resolutions])
            IN  /\ state' = p.state
                /\ events' = d.events
                /\ resolutions' = d.resolutions
                /\ run' = [run EXCEPT !.resultResolved = d.resultResolved]
    /\ UNCHANGED <<now, child, signals, heartbeats, notRun>>

\* whether a signal reached the living child
Signalled == \E i \in 1..Len(signals) : signals[i].reached

\* the child exits: 'exit' is emitted.  The listener that the timeout
\* callback registered clears killTimer; spawn's own listener clears the
\* timer of its timeout option.
ChildExit(code) ==
    /\ child.st = "alive"
    /\ code = NullCode => Signalled
    /\ child' = [child EXCEPT !.st = "exited", !.code = code]
    /\ run' = [run EXCEPT !.killTimer = IF run.exitListener THEN Clear(@) ELSE @,
                          !.spawnTimer = Clear(@)]
    /\ UNCHANGED <<now, state, events, resolutions, signals, lines, heartbeats, notRun>>

\* the result that the close handler makes
CloseResult(code) ==
    [success |-> ~run.killed /\ code = 0,
     output |-> IF Trim(state.accumulatedText) # << >>
                THEN Trim(state.accumulatedText) ELSE EMPTY_RESPONSE,
     timedOut |-> run.killed,
     exitCode |-> code,
     durationMs |-> now - run.startTime]

\* child.on("close"): the process has ended and its streams are closed
ChildClose ==
    /\ child.st \in {"exited", "errored"}
    /\ child' = [child EXCEPT !.st = "closed"]
    /\ run' = [run EXCEPT !.timer = Clear(@), !.heartbeat = Clear(@)]
    /\ IF ~run.resultResolved
       THEN /\ events' = Append(events, CompleteEvent(CloseResult(child.code)))
            /\ resolutions' = Append(resolutions, CloseResult(child.code))
       ELSE UNCHANGED <<events, resolutions>>
    /\ UNCHANGED <<now, state, signals, lines, heartbeats, notRun>>

\* the result that the error handler makes
ErrorResult ==
    [success |-> FALSE, output |-> PROCESS_ERROR, timedOut |-> FALSE,
     exitCode |-> NullCode, durationMs |-> now - run.startTime]

\* the error handler, were it to leave the heartbeat running
ChildError_KeepsHeartbeat ==
    /\ child.st = "failing"
    /\ child' = [child EXCEPT !.st = "errored", !.code = SpawnErrno]
    /\ run' = [run EXCEPT !.timer = Clear(@)]
    /\ IF ~run.resultResolved
       THEN /\ events' = Append(events, CompleteEvent(ErrorResult))
            /\ resolutions' = Append(resolutions, ErrorResult)
       ELSE UNCHANGED <<events, resolutions>>
    /\ UNCHANGED <<now, state, signals, lines, heartbeats, notRun>>

\* child.on("error"): the spawn failed; 'close' follows with the errno
ChildError ==
    /\ child.st = "failing"
    /\ child' = [child EXCEPT !.st = "errored", !.code = SpawnErrno]
    /\ run' = [run EXCEPT !.timer = Clear(@), !.heartbeat = Clear(@)]
    /\ IF ~run.resultResolved
       THEN /\ events' = Append(events, CompleteEvent(ErrorResult))
            /\ resolutions' = Append(resolutions, ErrorResult)
       ELSE UNCHANGED <<events, resolutions>>
    /\ UNCHANGED <<now, state, signals, lines, heartbeats, notRun>>

\* a kill call: live is whether the child had not exited, reached whether
\* the signal was delivered to it.  child.kill() addresses the child by its
\* pid; process.kill(-pid) addresses the process group of that id, which
\* exists only if the child made itself a group leader (spawn is called
\* without detached), and throws ESRCH otherwise, which the callback catches.
Signal(sig, by, leader) ==
    [sig |-> sig, by |-> by, at |-> now, live |-> child.st = "alive",
     reached |-> child.st = "alive" /\ leader]

\* the timeout callback, were it to arm killTimer and register no exit listener
TimeoutFires_NoExitListener ==
    /\ Due(run.timer)
    /\ IF ~run.killAttempted
       THEN /\ run' = [run EXCEPT !.timer = Fired(@), !.killed = TRUE,
                                  !.killAttempted = TRUE,
                                  !.killTimer = Arm(now + KILL_GRACE_MS)]
            /\ signals' = Append(signals, Signal("SIGTERM", "timer", TRUE))
       ELSE /\ run' = [run EXCEPT !.timer = Fired(@), !.killed = TRUE]
            /\ UNCHANGED signals
    /\ UNCHANGED <<now, state, child, events, resolutions, lines, heartbeats, notRun>>

\* the timeout callback: SIGTERM, then killTimer and the exit listener
TimeoutFires ==
    /\ Due(run.timer)
    /\ IF ~run.killAttempted
       THEN /\ run' = [run EXCEPT !.timer = Fired(@), !.killed = TRUE,
                                  !.killAttempted = TRUE,
                                  !.killTimer = Arm(now + KILL_GRACE_MS),
                                  !.exitListener = TRUE]
            /\ signals' = Append(signals, Signal("SIGTERM", "timer", TRUE))
       ELSE /\ run' = [run EXCEPT !.timer = Fired(@), !.killed = TRUE]
            /\ UNCHANGED signals
    /\ UNCHANGED <<now, state, child, events, resolutions, lines, heartbeats, notRun>>

\* the killTimer callback: SIGKILL to the process group of the child
KillTimerFires ==
    /\ Due(run.killTimer)
    /\ run' = [run EXCEPT !.killTimer = Fired(@)]
    /\ \E leader \in BOOLEAN :
          signals' = Append(signals, Signal("SIGKILL", "killTimer", leader))
    /\ UNCHANGED <<now, state, child, events, resolutions, lines, heartbeats, notRun>>

\* the timer of spawn's timeout option: child.kill() with the default
\* signal, which does nothing once the child has no handle
SpawnTimeoutFires ==
    /\ Due(run.spawnTimer)
    /\ run' = [run EXCEPT !.spawnTimer = Fired(@)]
    /\ signals' = IF child.st = "alive"
                  THEN Append(signals, Signal("SIGTERM", "spawn", TRUE))
                  ELSE signals
    /\ UNCHANGED <<now, state, child, events, resolutions, lines, heartbeats, notRun>>

\* the heartbeat interval logs a line
HeartbeatFires ==
    /\ Due(run.heartbeat)
    /\ run' = [run EXCEPT !.heartbeat = Arm(@.due + HEARTBEAT_MS)]
    /\ heartbeats' = heartbeats + 1
    /\ UNCHANGED <<now, state, child, events, resolutions, signals, lines, notRun>>

RunTimers == {run.timer, run.killTimer, run.heartbeat, run.spawnTimer}

\* Time passes while something of the run is outstanding.  Timers fire when
\* due, and the 'error' of a failed spawn comes before any time passes.
RunTick ==
    /\ run.pc = "started"
    /\ child.st # "failing"
    /\ child.st # "closed" \/ \E t \in RunTimers : Pending(t)
    /\ \A t \in RunTimers : ~Due(t)
    /\ now + RUN_TICK_MS <= MaxRunTicks * RUN_TICK_MS
    /\ now' = now + RUN_TICK_MS
    /\ UNCHANGED <<runVars, notRun>>

RunNext ==
    \/ \E t \in Timeouts, o \in {"throw", "async_fail", "ok"} : RunStart(t, o)
    \/ \E l \in RunLines : Line(l)
    \/ \E c \in {0, 1, NullCode} : ChildExit(c)
    \/ ChildClose
    \/ ChildError
    \/ TimeoutFires
    \/ KillTimerFires
    \/ SpawnTimeoutFires
    \/ HeartbeatFires
    \/ RunTick

\* one call of runClaudeStream with its child process
SpecRun == RunInit /\ [][RunNext]_vars

\* SIGKILL reached the living child, which then ends
KilledChildExits ==
    /\ \E i \in 1..Len(signals) : signals[i].sig = "SIGKILL" /\ signals[i].reached
    /\ ChildExit(NullCode)

\* one call of runClaudeStream where timers fire, the events of the child
\* are delivered, and a child that was sent SIGKILL ends
LiveSpecRun ==
    /\ RunInit
    /\ [][RunNext]_vars
    /\ WF_vars(\E t \in Timeouts, o \in {"throw", "async_fail", "ok"} : RunStart(t, o))
    /\ WF_vars(RunTick)
    /\ WF_vars(TimeoutFires)
    /\ WF_vars(KillTimerFires)
    /\ WF_vars(ChildError)
    /\ WF_vars(ChildClose)
    /\ WF_vars(KilledChildExits)

(***************************************************************************)
(* Properties of runClaudeStream                                           *)
(***************************************************************************)
CompleteCount == Cardinality({i \in 1..Len(events) : events[i].type = "complete"})

\* the call is over: spawn threw, or the child's streams are closed
RunOver == run.pc = "returned" \/ child.st = "closed"

\* the spawn failed, and the failure has been reported
SpawnFailed ==
    \/ run.pc = "returned"
    \/ child.st = "errored"
    \/ child.st = "closed" /\ ~child.pid

Sent(sig, by) == {i \in 1..Len(signals) : signals[i].sig = sig /\ signals[i].by = by}

\* C1: every call of runClaudeStream delivers exactly one 'complete' event
\* to onEvent, whatever the lines of the stream and whatever the order of
\* the child's 'error', 'exit' and 'close' events.
C1_ExactlyOneComplete ==
    /\ CompleteCount <= 1
    /\ RunOver => CompleteCount = 1

\* a run that is over delivered its 'complete' last, after other events
C1_Witness ==
    /\ RunOver
    /\ CompleteCount = 1
    /\ Len(events) > 1

\* C2: no event of any kind is delivered to onEvent after a 'complete'
\* event, also when lines follow a 'result' line.
C2_NothingAfterComplete ==
    \A i \in 1..Len(events) : events[i].type = "complete" => i = Len(events)

\* a 'complete' was delivered after a text_delta
C2_Witness ==
    /\ Len(events) = 2
    /\ events[1].type = "text_delta"
    /\ events[2].type = "complete"

C8_ResultReflectsTimeout ==
    (child.pid /\ child.st = "closed" /\ resolutions # << >>)
    => LET r == resolutions[1]
           term == Sent("SIGTERM", "timer") # {}
       IN  /\ r.timedOut = term
           /\ r.success = (~term /\ child.code = 0)

\* the close handler made the result of a run that timed out
C8_Witness ==
    /\ child.pid /\ child.st = "closed"
    /\ ~run.resultResolved
    /\ resolutions # << >>
    /\ resolutions[1].timedOut

\* C9: when the spawn fails, the RunResult has success = false, exitCode =
\* null and timedOut = false; neither the timeout timer nor the grace timer
\* nor the heartbeat stays pending, and no signal is sent.
C9_SpawnFailure ==
    SpawnFailed
    => /\ resolutions # << >>
       /\ ~resolutions[1].success
       /\ resolutions[1].exitCode = NullCode
       /\ ~resolutions[1].timedOut
       /\ ~Pending(run.timer)
       /\ ~Pending(run.killTimer)
       /\ ~Pending(run.heartbeat)
       /\ signals = << >>

\* a spawn failed asynchronously and time went on
C9_Witness ==
    /\ SpawnFailed
    /\ run.pc = "started"
    /\ now > run.startTime

\* C10: every call of runClaudeStream eventually resolves its promise with a
\* RunResult, given that a child that was sent SIGKILL eventually closes.
C10_EventuallyResolves ==
    <>(/\ resolutions # << >>
       /\ DOMAIN resolutions[1]
             = {"success", "output", "timedOut", "exitCode", "durationMs"})

\* the promise was resolved by the close handler after SIGKILL reached the child
C10_Witness ==
    /\ resolutions # << >>
    /\ ~run.resultResolved
    /\ \E j \in Sent("SIGKILL", "killTimer") : signals[j].reached

\* C33: the RunResult with which runClaudeStream resolves is the result
\* that every 'complete' event delivered to onEvent in that run carries.
C33_ResolutionIsEveryComplete ==
    \A i \in 1..Len(events) :
        events[i].type = "complete"
        => /\ resolutions # << >>
           /\ events[i].result = resolutions[1]

\* the close handler resolved the promise and delivered its one 'complete'
C33_Witness ==
    /\ child.st = "closed"
    /\ child.pid
    /\ ~run.resultResolved
    /\ CompleteCount = 1
    /\ Len(resolutions) = 1
    /\ events[Len(events)].result = resolutions[1]

\* C24: when the child exits every pending timer of the run is cancelled:
\* from the exit on the timeout callback makes no SIGTERM call, the grace
\* callback makes no SIGKILL call and the heartbeat logs no line, also while
\* the streams of the child stay open.
C24_NoTimerFiresAfterExit ==
    [][child.st \in {"exited", "closed"}
       => /\ signals' = signals
          /\ heartbeats' = heartbeats]_vars

\* the heartbeat logged a line and the grace callback made its SIGKILL call
\* for a child that had exited before the timeout, its streams still open
C24_Witness ==
    /\ child.st = "exited"
    /\ heartbeats > 0
    /\ \E i \in Sent("SIGTERM", "timer") : ~signals[i].live
    /\ \E j \in Sent("SIGKILL", "killTimer") : ~signals[j].live

(***************************************************************************)
(* index.ts: createStreamUpdater, and handleClaudeRequest around it        *)
(***************************************************************************)
FLUSH_INTERVAL_MS == 2000
\* the preview window and the ceiling of the body; 3500 and 3900 in the
\* source, scaled down with the lengths of the lines (a status line, a tool
\* line and the separator are written with one to three characters) so that a
\* body with the status line, the separator and a full preview fits and a few
\* tool lines more do not
MAX_PREVIEW_LEN == 4
MAX_BODY_LEN == 18

\* the status lines
STATUS_INITIAL == <<"initial">>      \* "🤔 생각 중..."
STATUS_THINKING == <<"thinking">>    \* "🧠 생각 중..."
STATUS_ANALYSING == <<"analysing">>  \* "🤔 분석 중..."
STATUS_WRITING == <<"writing">>      \* "✍️ 답변 작성 중..."
StatusTool(label) == <<"tool", label>>

TOOL_LABELS == [n \in {"Read", "Bash"} |-> IF n = "Read" THEN "read file" ELSE "run command"]
getToolLabel(toolName) ==
    IF toolName \in DOMAIN TOOL_LABELS THEN TOOL_LABELS[toolName] ELSE toolName

\* Math.round of a duration given in tenths of a second
Round(tenths) == (tenths + 5) \div 10

\* the last n elements of a sequence
Last(t, n) == SubSeq(t, Len(t) - n + 1, Len(t))

\* buildMessage: the tool history, the status line and the preview of the
\* text, as the parts that are joined
buildMessage(u) ==
    [history |-> u.toolHistory,
     status |-> u.statusLine,
     preview |-> IF u.accumulatedText = << >> THEN << >>
                 ELSE IF Len(u.accumulatedText) > MAX_PREVIEW_LEN
                 THEN <<".", ".", ".", "\n">> \o Last(u.accumulatedText, MAX_PREVIEW_LEN)
                 ELSE u.accumulatedText]

\* "────────────"
SEPARATOR == <<"-">>

\* a line of the tool history: `✅ ${label} 완료${dur}`
HistoryLine(entry) ==
    <<"done", entry.label>> \o (IF entry.dur >= 0 THEN <<ToString(entry.dur)>> ELSE << >>)

\* parts.join("\n")
RECURSIVE Join(_)
Join(parts) ==
    IF parts = << >> THEN << >>
    ELSE IF Len(parts) = 1 THEN parts[1]
    ELSE parts[1] \o <<"\n">> \o Join(Tail(parts))

\* the parts array of buildMessage
MessageParts(u) ==
    LET b == buildMessage(u)
    IN  (IF Len(b.history) > 0
         THEN << Join([i \in 1..Len(b.history) |-> HistoryLine(b.history[i])]) >>
         ELSE << >>)
        \o << b.status >>
        \o (IF u.accumulatedText # << >> THEN << SEPARATOR, b.preview >> ELSE << >>)

\* buildMessage down to its characters, were it not to cut the body
buildMessageText_NoClamp(u) == Join(MessageParts(u))

\* buildMessage down to its characters: parts.join("\n").substring(0, 3900)
buildMessageText(u) ==
    LET joined == Join(MessageParts(u))
    IN  SubSeq(joined, 1, Min({Len(joined), MAX_BODY_LEN}))

\* the updater that createStreamUpdater returns
NewUpdater == [accumulatedText |-> << >>, statusLine |-> STATUS_INITIAL,
               toolHistory |-> << >>, dirty |-> TRUE, flushing |-> FALSE,
               stopped |-> FALSE, interval |-> "armed"]

\* the events that runClaudeStream hands over; durations in tenths of a second
UpdaterEvents ==
    { [type |-> "thinking"],
      [type |-> "tool_use", toolName |-> "Read"],
      [type |-> "tool_result", toolName |-> "Read", durationSec |-> 24],
      [type |-> "tool_result", toolName |-> "Grep", durationSec |-> 0],
      [type |-> "text_delta", accumulated |-> <<"H", "i">>],
      [type |-> "complete"] }

\* the entry that a tool_result adds to the history; dur -1 is no duration
HistoryEntry(ev) ==
    [label |-> getToolLabel(ev.toolName),
     dur |-> IF ev.durationSec # 0 THEN Round(ev.durationSec) ELSE -1]

\* StreamUpdater.onEvent on a running updater
Apply(u, ev) ==
    CASE ev.type = "thinking" ->
           [u EXCEPT !.statusLine = STATUS_THINKING, !.dirty = TRUE]
      [] ev.type = "tool_use" ->
           [u EXCEPT !.statusLine = StatusTool(getToolLabel(ev.toolName)), !.dirty = TRUE]
      [] ev.type = "tool_result" ->
           [u EXCEPT !.toolHistory = Append(@, HistoryEntry(ev)),
                     !.statusLine = STATUS_ANALYSING, !.dirty = TRUE]
      [] ev.type = "text_delta" ->
           [u EXCEPT !.accumulatedText = ev.accumulated,
                     !.statusLine = STATUS_WRITING, !.dirty = TRUE]
      [] ev.type = "complete" -> [u EXCEPT !.stopped = TRUE]
      [] OTHER -> u

notUpdater == <<now, cacheVars, cacheHistory, handlerVars, runVars, parserVars, envVars,
               textVars>>

\* handleClaudeRequest has posted the first message and created the updater;
\* the message shows the initial status line
UpdaterInit ==
    /\ updater = NewUpdater
    /\ req = [pc |-> "running", completes |-> 0]
    /\ inflight = NoneInFlight
    /\ pushLog = [NoPushLog EXCEPT !.lastBody = buildMessage(NewUpdater)]
    /\ textArg = NoTextCall
    /\ textResult = NoTextResult
    /\ now = 0
    /\ CacheInit
    /\ HandlersInit
    /\ RunIdle
    /\ ref = IdleRef
    /\ parentEnv = NoEnv
    /\ childEnv = NoChildEnv

\* runClaudeStream hands an event to updater.onEvent; with the first
\* 'complete' it resolves the promise that handleClaudeRequest awaits
OnEvent(ev) ==
    /\ req.pc # "idle"
    /\ pushLog.fed < MaxUpdaterEvents
    /\ updater' = IF updater.stopped THEN updater ELSE Apply(updater, ev)
    /\ req' = IF ev.type = "complete"
              THEN [pc |-> IF req.pc = "running" THEN "resolved" ELSE req.pc,
                    completes |-> req.completes + 1]
              ELSE req
    /\ pushLog' = [pushLog EXCEPT
           !.fed = @ + 1,
           !.missed = IF /\ inflight.progress > 0
                         /\ ~updater.stopped
                         /\ buildMessage(Apply(updater, ev)) # buildMessage(updater)
                      THEN "missed" ELSE @]
    /\ UNCHANGED <<inflight, notUpdater>>

\* the interval callback, were it not to look at flushing
Tick_IgnoresFlushing ==
    /\ updater.interval = "armed"
    /\ pushLog.ticks < MaxUpdaterTicks
    /\ IF updater.stopped \/ ~updater.dirty
       THEN /\ pushLog' = [pushLog EXCEPT
                   !.ticks = @ + 1,
                   !.lastTick = IF updater.stopped THEN "stopped" ELSE "clean"]
            /\ UNCHANGED <<updater, inflight>>
       ELSE /\ updater' = [updater EXCEPT !.dirty = FALSE, !.flushing = TRUE]
            /\ inflight' = [inflight EXCEPT !.progress = @ + 1]
            /\ pushLog' = [pushLog EXCEPT !.ticks = @ + 1, !.lastTick = "pushed",
                                          !.started = @ + 1,
                                          !.lastBody = buildMessage(updater),
                                          !.missed = IF @ = "missed" THEN "sent"
                                                     ELSE "none"]
    /\ UNCHANGED <<req, notUpdater>>

\* the interval callback, were it not to look at stopped
Tick_IgnoresStopped ==
    /\ updater.interval = "armed"
    /\ pushLog.ticks < MaxUpdaterTicks
    /\ IF ~updater.dirty \/ updater.flushing
       THEN /\ pushLog' = [pushLog EXCEPT
                   !.ticks = @ + 1,
                   !.lastTick = IF ~updater.dirty THEN "clean" ELSE "flushing"]
            /\ UNCHANGED <<updater, inflight>>
       ELSE /\ updater' = [updater EXCEPT !.dirty = FALSE, !.flushing = TRUE]
            /\ inflight' = [inflight EXCEPT !.progress = @ + 1]
            /\ pushLog' = [pushLog EXCEPT !.ticks = @ + 1, !.lastTick = "pushed",
                                          !.started = @ + 1,
                                          !.lastBody = buildMessage(updater),
                                          !.missed = IF @ = "missed" THEN "sent"
                                                     ELSE "none"]
    /\ UNCHANGED <<req, notUpdater>>

\* the interval callback, were it to clear dirty before it looks at flushing
Tick_ClearsDirtyFirst ==
    /\ updater.interval = "armed"
    /\ pushLog.ticks < MaxUpdaterTicks
    /\ IF updater.stopped \/ ~updater.dirty \/ updater.flushing
       THEN /\ pushLog' = [pushLog EXCEPT
                   !.ticks = @ + 1,
                   !.lastTick = IF updater.stopped THEN "stopped"
                                ELSE IF ~updater.dirty THEN "clean" ELSE "flushing"]
            /\ updater' = [updater EXCEPT !.dirty = IF updater.stopped THEN @ ELSE FALSE]
            /\ UNCHANGED inflight
       ELSE /\ updater' = [updater EXCEPT !.dirty = FALSE, !.flushing = TRUE]
            /\ inflight' = [inflight EXCEPT !.progress = @ + 1]
            /\ pushLog' = [pushLog EXCEPT !.ticks = @ + 1, !.lastTick = "pushed",
                                          !.started = @ + 1,
                                          !.lastBody = buildMessage(updater),
                                          !.missed = IF @ = "missed" THEN "sent"
                                                     ELSE "none"]
    /\ UNCHANGED <<req, notUpdater>>

\* the interval callback, up to its await
Tick ==
    /\ updater.interval = "armed"
    /\ pushLog.ticks < MaxUpdaterTicks
    /\ IF updater.stopped \/ ~updater.dirty \/ updater.flushing
       THEN /\ pushLog' = [pushLog EXCEPT
                   !.ticks = @ + 1,
                   !.lastTick = IF updater.stopped THEN "stopped"
                                ELSE IF ~updater.dirty THEN "clean" ELSE "flushing"]
            /\ UNCHANGED <<updater, inflight>>
       ELSE /\ updater' = [updater EXCEPT !.dirty = FALSE, !.flushing = TRUE]
            /\ inflight' = [inflight EXCEPT !.progress = @ + 1]
            /\ pushLog' = [pushLog EXCEPT !.ticks = @ + 1, !.lastTick = "pushed",
                                          !.started = @ + 1,
                                          !.lastBody = buildMessage(updater),
                                          !.missed = IF @ = "missed" THEN "sent"
                                                     ELSE "none"]
    /\ UNCHANGED <<req, notUpdater>>

\* chat.update of a push settles: the callback goes on after its await, and
\* a failure is logged
PushSettles(ok) ==
    /\ inflight.progress > 0
    /\ inflight' = [inflight EXCEPT !.progress = @ - 1]
    /\ updater' = [updater EXCEPT !.flushing = FALSE]
    /\ pushLog' = [pushLog EXCEPT
           !.lastOutcome = IF ok THEN "ok" ELSE "failed",
           !.landed = IF ok THEN Append(@, "progress") ELSE @]
    /\ UNCHANGED <<req, notUpdater>>

\* handleClaudeRequest after its await: cleanup, then safeSend with update_ts
Finish ==
    /\ req.pc = "resolved"
    /\ updater' = [updater EXCEPT !.stopped = TRUE, !.interval = "cleared"]
    /\ inflight' = [inflight EXCEPT !.final = 1]
    /\ req' = [req EXCEPT !.pc = "final"]
    /\ UNCHANGED <<pushLog, notUpdater>>

\* chat.update of safeSend settles; msg_too_long makes safeSend send a
\* shorter text once
FinalSettles(outcome) ==
    /\ req.pc = "final"
    /\ inflight.final > 0
    /\ IF outcome = "msg_too_long" /\ inflight.final = 1
       THEN /\ inflight' = [inflight EXCEPT !.final = 2]
            /\ UNCHANGED <<req, pushLog>>
       ELSE /\ inflight' = [inflight EXCEPT !.final = 0]
            /\ req' = [req EXCEPT !.pc = "done"]
            /\ pushLog' = [pushLog EXCEPT
                   !.landed = IF outcome = "ok" THEN Append(@, "final") ELSE @]
    /\ UNCHANGED <<updater, notUpdater>>

UpdaterNext ==
    \/ \E ev \in UpdaterEvents : OnEvent(ev)
    \/ Tick
    \/ \E ok \in BOOLEAN : PushSettles(ok)
    \/ Finish
    \/ \E outcome \in {"ok", "msg_too_long", "error"} : FinalSettles(outcome)

\* one handleClaudeRequest call from the creation of its updater on
SpecUpdater == UpdaterInit /\ [][UpdaterNext]_vars

(***************************************************************************)
(* index.ts: buildMessage on the render states that events lead to         *)
(***************************************************************************)
\* the events that change what buildMessage shows; durations in tenths of a
\* second, the second text longer than the preview window
RenderEvents ==
    { [type |-> "thinking"],
      [type |-> "tool_use", toolName |-> "Read"],
      [type |-> "tool_result", toolName |-> "Read", durationSec |-> 24],
      [type |-> "tool_result", toolName |-> "Grep", durationSec |-> 0],
      [type |-> "text_delta", accumulated |-> <<"H", "i">>],
      [type |-> "text_delta", accumulated |-> <<"H", "i", " ", "a", "l", "l">>] }

RenderState(u) ==
    [toolHistory |-> u.toolHistory, statusLine |-> u.statusLine,
     accumulatedText |-> u.accumulatedText]

RenderInit ==
    /\ updater = NewUpdater
    /\ req = IdleReq
    /\ inflight = NoneInFlight
    /\ pushLog = NoPushLog
    /\ textArg = [u |-> RenderState(NewUpdater)]
    /\ textResult = NoTextResult
    /\ now = 0
    /\ CacheInit
    /\ HandlersInit
    /\ RunIdle
    /\ ref = IdleRef
    /\ parentEnv = NoEnv
    /\ childEnv = NoChildEnv

\* an event reaches updater.onEvent
RenderEvent(ev) ==
    /\ ~textResult.done
    /\ pushLog.fed < MaxRenderEvents
    /\ updater' = Apply(updater, ev)
    /\ pushLog' = [pushLog EXCEPT !.fed = @ + 1]
    /\ UNCHANGED <<req, inflight, textVars, notUpdater>>

\* the interval callback calls buildMessage
Render ==
    /\ ~textResult.done
    /\ textArg' = [u |-> RenderState(updater)]
    /\ textResult' = [done |-> TRUE, out |-> buildMessageText(updater)]
    /\ UNCHANGED <<now, updater, req, inflight, pushLog, cacheVars, cacheHistory,
                   handlerVars, runVars, parserVars, envVars>>

RenderNext ==
    \/ \E ev \in RenderEvents : RenderEvent(ev)
    \/ Render

\* the bodies that buildMessage makes after any events
SpecRender == RenderInit /\ [][RenderNext]_vars

(***************************************************************************)
(* claude.ts: the line handler and parseStreamLine, fed with any lines     *)
(***************************************************************************)
\* a line that JSON.parse accepts and that is not an object: null, or a
\* number, string or array
NullLine == [raw |-> "null"]
ScalarLine == [raw |-> "scalar"]

ToolNames == {"Read", "Bash"}

StreamEvent(event) == Json([type |-> "stream_event", event |-> event])
BlockStart(block) == StreamEvent([type |-> "content_block_start", content_block |-> block])
ToolUse(name) == [type |-> "tool_use", name |-> name]
TextDelta(text) ==
    StreamEvent([type |-> "content_block_delta",
                 delta |-> [type |-> "text_delta", text |-> text]])
Assistant(content) == Json([type |-> "assistant", message |-> [content |-> content]])

ParserLines ==
    { BlankLine, GarbageLine, NullLine, ScalarLine,
      BlockStart([type |-> "thinking"]),
      BlockStart([type |-> "text"]),
      BlockStart(ToolUse("Read")),
      BlockStart(ToolUse("Bash")),
      TextDelta(<<"H", "i">>),
      TextDelta(<<"!">>),
      Assistant(<< ToolUse("Read") >>),
      Assistant(<< [type |-> "text"], ToolUse("Read"), ToolUse("Bash") >>),
      Json([type |-> "user", message |-> [content |-> << [type |-> "tool_result"] >>],
            tool_use_result |-> [durationSeconds |-> 2]]),
      Json([type |-> "user", message |-> [content |-> << [type |-> "text"] >>]]),
      Json([type |-> "result", is_error |-> FALSE, result |-> <<"o", "k">>]),
      Json([type |-> "result", is_error |-> TRUE, result |-> << >>]),
      Json([type |-> "result"]) }

\* a well-formed record is a JSON object
WellFormed(line) == line.raw = "json"

\* parseStreamLine throws a TypeError at parsed.type when JSON.parse
\* returned null; nothing catches it below the 'line' event
Throws(line) == line.raw = "null"

\* how many times a line announces the tool on each channel
IsToolUse(block, name) ==
    TypeOf(block) = "tool_use" /\ Has(block, "name") /\ block.name = name
PrimaryCount(line, name) ==
    IF /\ WellFormed(line) /\ TypeOf(line.parsed) = "stream_event"
       /\ TypeOf(line.parsed.event) = "content_block_start"
       /\ IsToolUse(line.parsed.event.content_block, name)
    THEN 1 ELSE 0
SecondaryCount(line, name) ==
    IF WellFormed(line) /\ TypeOf(line.parsed) = "assistant"
    THEN LET content == line.parsed.message.content
         IN  Cardinality({i \in 1..Len(content) : IsToolUse(content[i], name)})
    ELSE 0

ParserInit ==
    /\ state = InitialState
    /\ events = << >>
    /\ lines = 0
    /\ ref = [IdleRef EXCEPT !.primary = [n \in ToolNames |-> 0],
                             !.secondary = [n \in ToolNames |-> 0]]
    /\ now = 0
    /\ run = IdleRun
    /\ child = NoChild
    /\ resolutions = << >>
    /\ signals = << >>
    /\ heartbeats = 0
    /\ CacheInit
    /\ HandlersInit
    /\ parentEnv = NoEnv
    /\ childEnv = NoChildEnv
    /\ updater = NoUpdater
    /\ req = IdleReq
    /\ inflight = NoneInFlight
    /\ pushLog = NoPushLog
    /\ textArg = NoTextCall
    /\ textResult = NoTextResult

\* readline emits 'line' and the handler parses it.  sameChunk: the line
\* came in the stdout chunk of the line before it.  When the handler threw,
\* readline has dropped the rest of the lines of that chunk.
Feed(line, sameChunk) ==
    /\ lines < MaxParserLines
    /\ lines' = lines + 1
    /\ LET delivered == ~(ref.lost /\ sameChunk)
           parse == delivered /\ ~Throws(line)
           out == IF parse THEN ParseLine(line, state) ELSE NoEvents(state)
           clean == IF WellFormed(line) THEN ParseLine(line, ref.state)
                    ELSE NoEvents(ref.state)
       IN  /\ state' = out.state
           /\ events' = events \o out.events
           /\ ref' = [state |-> clean.state,
                      events |-> ref.events \o clean.events,
                      lost |-> IF delivered THEN Throws(line) ELSE TRUE,
                      clean |-> ref.clean /\ WellFormed(line),
                      last |-> line,
                      delivered |-> delivered,
                      primary |-> [n \in ToolNames |->
                                      ref.primary[n] + PrimaryCount(line, n)],
                      secondary |-> [n \in ToolNames |->
                                        ref.secondary[n] + SecondaryCount(line, n)]]
    /\ UNCHANGED <<now, run, child, resolutions, signals, heartbeats, cacheVars, cacheHistory, handlerVars,
                   envVars, updaterVars, textVars>>

ParserNext == \E line \in ParserLines, sameChunk \in BOOLEAN : Feed(line, sameChunk)

\* the parser state of one run under any lines
SpecParser == ParserInit /\ [][ParserNext]_vars

(***************************************************************************)
(* claude.ts: the environment of the child                                 *)
(***************************************************************************)
\* "CLAUDE", the prefix of the names that are removed
CLAUDE_PREFIX == <<"C", "L", "A", "U", "D", "E">>

EnvNames ==
    { CLAUDE_PREFIX,
      CLAUDE_PREFIX \o <<"C", "O", "D", "E">>,
      CLAUDE_PREFIX \o <<"_", "X">>,
      <<"C", "L", "A", "U", "D">>,
      <<"c", "l", "a", "u", "d", "e", "_", "x">>,
      <<"M", "Y", "_">> \o CLAUDE_PREFIX,
      <<"P", "A", "T", "H">> }
EnvValues == {"1", ""}

\* key.startsWith(prefix), were it key.includes(prefix)
startsWith_Anywhere(key, prefix) ==
    \E i \in 1..Len(key) :
        i + Len(prefix) - 1 <= Len(key) /\ SubSeq(key, i, i + Len(prefix) - 1) = prefix

\* key.startsWith(prefix)
startsWith(key, prefix) ==
    Len(key) >= Len(prefix) /\ \A i \in 1..Len(prefix) : key[i] = prefix[i]

\* { ...process.env } with every key that starts with "CLAUDE" deleted
BuildChildEnv(penv) ==
    LET kept == {key \in DOMAIN penv : ~startsWith(key, CLAUDE_PREFIX)}
    IN  [key \in kept |-> penv[key]]

EnvInit ==
    /\ parentEnv \in UNION {[names -> EnvValues] : names \in SUBSET EnvNames}
    /\ childEnv = NoChildEnv
    /\ now = 0
    /\ CacheInit
    /\ HandlersInit
    /\ RunIdle
    /\ ref = IdleRef
    /\ updater = NoUpdater
    /\ req = IdleReq
    /\ inflight = NoneInFlight
    /\ pushLog = NoPushLog
    /\ textArg = NoTextCall
    /\ textResult = NoTextResult

\* runClaudeStream builds env before it spawns
BuildEnv ==
    /\ ~childEnv.built
    /\ childEnv' = [built |-> TRUE, env |-> BuildChildEnv(parentEnv)]
    /\ UNCHANGED <<now, parentEnv, cacheVars, cacheHistory, handlerVars, runVars,
                   parserVars, updaterVars, textVars>>

EnvNext == BuildEnv

\* the environment of the child for any environment of the parent
SpecEnv == EnvInit /\ [][EnvNext]_vars

(***************************************************************************)
(* claude.ts: sanitizePrompt                                               *)
(***************************************************************************)
\* \w
IsWordChar(c) ==
    \/ \E i \in 1..Len(UpperLetters) : c = UpperLetters[i] \/ c = LowerLetters[i]
    \/ c \in Digits
    \/ c = "_"

\* where the longest run of [\w-] that starts at i ends (the index after it)
RECURSIVE FlagRunEnd(_, _)
FlagRunEnd(s, i) ==
    IF i <= Len(s) /\ (IsWordChar(s[i]) \/ s[i] = "-") THEN FlagRunEnd(s, i + 1) ELSE i

\* "--" followed by at least one [\w-] at index d
FlagAt(s, d) ==
    /\ d + 2 <= Len(s)
    /\ s[d] = "-" /\ s[d + 1] = "-"
    /\ FlagRunEnd(s, d + 2) > d + 2

\* /(?:^|\s)--[\w-]+/ tried at index i: whether it matches, where its "--"
\* is and where the match ends (the index after it)
FlagMatchAt(s, i) ==
    IF i = 1 /\ FlagAt(s, 1)
    THEN [ok |-> TRUE, dashes |-> 1, end |-> FlagRunEnd(s, 3)]
    ELSE IF s[i] \in Whitespace /\ FlagAt(s, i + 1)
    THEN [ok |-> TRUE, dashes |-> i + 1, end |-> FlagRunEnd(s, i + 3)]
    ELSE [ok |-> FALSE, dashes |-> 0, end |-> 0]

\* replace(/(?:^|\s)--[\w-]+/g, match => match.replace(/--/, "")) from index i
RECURSIVE ReplaceFlags(_, _)
ReplaceFlags(s, i) ==
    IF i > Len(s) THEN << >>
    ELSE LET m == FlagMatchAt(s, i)
         IN  IF m.ok
             THEN SubSeq(s, i, m.dashes - 1) \o SubSeq(s, m.dashes + 2, m.end - 1)
                  \o ReplaceFlags(s, m.end)
             ELSE <<s[i]>> \o ReplaceFlags(s, i + 1)

sanitizePrompt(prompt) ==
    Trim(ReplaceFlags(SubSeq(prompt, 1, Min({Len(prompt), MAX_PROMPT_LENGTH})), 1))

\* the prompts: every string of these characters up to the bound
PromptChars == {"-", "a", " "}
PromptsUpTo(n) == UNION {[1..k -> PromptChars] : k \in 0..n}

SanitizeInit ==
    /\ textArg \in {[text |-> t, maxLen |-> 0] : t \in PromptsUpTo(MaxPromptLen)}
    /\ textResult = NoTextResult
    /\ now = 0
    /\ CacheInit
    /\ HandlersInit
    /\ RunIdle
    /\ ref = IdleRef
    /\ parentEnv = NoEnv
    /\ childEnv = NoChildEnv
    /\ updater = NoUpdater
    /\ req = IdleReq
    /\ inflight = NoneInFlight
    /\ pushLog = NoPushLog

\* runClaudeStream computes safePrompt
Sanitize ==
    /\ ~textResult.done
    /\ textResult' = [done |-> TRUE, out |-> sanitizePrompt(textArg.text)]
    /\ UNCHANGED <<now, textArg, cacheVars, cacheHistory, handlerVars, runVars,
                   parserVars, envVars, updaterVars>>

SanitizeNext == Sanitize

\* sanitizePrompt on any prompt
SpecSanitize == SanitizeInit /\ [][SanitizeNext]_vars

(***************************************************************************)
(* Properties of sanitizePrompt                                            *)
(***************************************************************************)
\* C21: the string that sanitizePrompt returns has no "--" at its start or
\* directly after whitespace.
C21_NoFlagAfterSanitize ==
    textResult.done
    => LET out == textResult.out
       IN  \A i \in 1..(Len(out) - 1) :
              (i = 1 \/ out[i - 1] \in Whitespace)
              => ~(out[i] = "-" /\ out[i + 1] = "-")

\* a flag in the middle of a prompt lost its dashes
C21_Witness ==
    /\ textArg.text = <<"a", " ", "-", "-", "a">>
    /\ textResult.done
    /\ textResult.out = <<"a", " ", "a">>

(***************************************************************************)
(* slack-helpers.ts: splitMessage, one loop iteration per step             *)
(***************************************************************************)
\* s.lastIndexOf(ch, from), were it to search the whole string
LastIndexOf_Unbounded(s, ch, from) ==
    LET found == {idx \in 0..(Len(s) - 1) : s[idx + 1] = ch}
    IN  IF found = {} THEN -1 ELSE CHOOSE idx \in found : \A other \in found : other <= idx

\* s.lastIndexOf(ch, from): the last index (from 0) not after from where ch
\* is, or -1
LastIndexOf(s, ch, from) ==
    LET found == {idx \in 0..Min({from, Len(s) - 1}) : s[idx + 1] = ch}
    IN  IF found = {} THEN -1 ELSE CHOOSE idx \in found : \A other \in found : other <= idx

\* splitIdx for a remaining text longer than maxLen
SplitIdx(remaining, maxLen) ==
    LET atNewline == LastIndexOf(remaining, "\n", maxLen)
        atSpace == LastIndexOf(remaining, " ", maxLen)
    IN  IF atNewline > 0 THEN atNewline
        ELSE IF atSpace > 0 THEN atSpace
        ELSE maxLen

SplitChars == {"a", " ", "\n"}
SplitTexts == UNION {[1..k -> SplitChars] : k \in 0..MaxTextLen}

SplitInit ==
    /\ textArg \in {[text |-> t, maxLen |-> m] : t \in SplitTexts, m \in 1..MaxSplitLen}
    /\ textResult = [done |-> FALSE, out |-> << >>, remaining |-> textArg.text]
    /\ now = 0
    /\ CacheInit
    /\ HandlersInit
    /\ RunIdle
    /\ ref = IdleRef
    /\ parentEnv = NoEnv
    /\ childEnv = NoChildEnv
    /\ updater = NoUpdater
    /\ req = IdleReq
    /\ inflight = NoneInFlight
    /\ pushLog = NoPushLog

\* the early return, or one iteration of the while loop
SplitStep ==
    /\ ~textResult.done
    /\ LET remaining == textResult.remaining
           maxLen == textArg.maxLen
           splitIdx == SplitIdx(remaining, maxLen)
           rest == TrimStart(SubSeq(remaining, splitIdx + 1, Len(remaining)))
       IN  IF Len(remaining) <= maxLen
           THEN textResult' = [done |-> TRUE, out |-> Append(textResult.out, remaining),
                               remaining |-> << >>]
           ELSE textResult' = [done |-> rest = << >>,
                               out |-> Append(textResult.out, SubSeq(remaining, 1, splitIdx)),
                               remaining |-> rest]
    /\ UNCHANGED <<now, textArg, cacheVars, cacheHistory, handlerVars, runVars,
                   parserVars, envVars, updaterVars>>

SplitNext == SplitStep

\* splitMessage on any text and limit; the loop goes on while it can
SpecSplit == SplitInit /\ [][SplitNext]_vars /\ WF_vars(SplitStep)

(***************************************************************************)
(* Properties of splitMessage                                              *)
(***************************************************************************)
\* the cut of a text longer than the limit: before the last newline among
\* the indexes 1..limit (counted from 0), else before the last space among
\* them, else at the limit
CutOf(r, limit) ==
    LET newlines == {p \in 1..limit : r[p + 1] = "\n"}
        spaces == {p \in 1..limit : r[p + 1] = " "}
    IN  IF newlines # {} THEN CHOOSE p \in newlines : \A q \in newlines : q <= p
        ELSE IF spaces # {} THEN CHOOSE p \in spaces : \A q \in spaces : q <= p
        ELSE limit

\* C23: for every text and every maxLen >= 1 splitMessage terminates, every
\* chunk has at most maxLen characters, and each cut of a text longer than
\* maxLen is made at the last newline within the limit, else at the last
\* space within it, else at maxLen.
C23_SplitTerminatesWithinLimit ==
    /\ <>(textResult.done)
    /\ [](\A i \in 1..Len(textResult.out) : Len(textResult.out[i]) <= textArg.maxLen)
    /\ [][(~textResult.done /\ Len(textResult.remaining) > textArg.maxLen)
          => LET r == textResult.remaining
                 chunks == textResult'.out
             IN  /\ Len(chunks) = Len(textResult.out) + 1
                 /\ chunks[Len(chunks)] = SubSeq(r, 1, CutOf(r, textArg.maxLen))]_vars

\* a text was cut at a newline and then at the limit
C23_Witness ==
    /\ textArg = [text |-> <<"a", "\n", " ", "a", "a">>, maxLen |-> 1]
    /\ textResult.done
    /\ textResult.out = << <<"a">>, <<"a">>, <<"a">> >>

(***************************************************************************)
(* Properties of the environment of the child                              *)
(***************************************************************************)
\* C20: the environment passed to the child has exactly the entries of the
\* parent's environment whose name does not start with "CLAUDE", with the
\* same values, and building it leaves the parent's environment as it was.
C20_ChildEnvFiltersPrefix ==
    /\ [](childEnv.built =>
            /\ \A key \in DOMAIN childEnv.env :
                  /\ key \in DOMAIN parentEnv
                  /\ childEnv.env[key] = parentEnv[key]
                  /\ ~(Len(key) >= 6 /\ SubSeq(key, 1, 6) = CLAUDE_PREFIX)
            /\ \A key \in DOMAIN parentEnv :
                  ~(Len(key) >= 6 /\ SubSeq(key, 1, 6) = CLAUDE_PREFIX)
                  => key \in DOMAIN childEnv.env)
    /\ [][parentEnv' = parentEnv]_vars

\* an environment with names that start with CLAUDE and names that only
\* contain it was filtered
C20_Witness ==
    /\ childEnv.built
    /\ DOMAIN parentEnv = EnvNames
    /\ DOMAIN childEnv.env # {}
    /\ DOMAIN childEnv.env # DOMAIN parentEnv

(***************************************************************************)
(* Properties of the stream parser                                         *)
(***************************************************************************)
TextDeltas == SelectSeq(events, LAMBDA e : e.type = "text_delta")
ToolUseEvents(name) ==
    Cardinality({i \in 1..Len(events) :
                    events[i].type = "tool_use" /\ events[i].toolName = name})

\* C16: the events emitted for a stream of lines, and the parser state after
\* it, are those of the same stream without its malformed lines (lines that
\* are not JSON, and JSON values that are not objects).
C16_MalformedLinesChangeNothing ==
    /\ events = ref.events
    /\ state = ref.state

\* a stream of a malformed line and two records that emit events
C16_Witness ==
    /\ ~ref.clean
    /\ lines = 3
    /\ Len(events) = 2
    /\ events = ref.events

\* C17: of two consecutive text_delta events the later one's accumulated
\* value is the earlier one's followed by the later one's text, hence at
\* least as long.
C17_AccumulatedGrows ==
    \A i \in 1..(Len(TextDeltas) - 1) :
        /\ TextDeltas[i + 1].accumulated = TextDeltas[i].accumulated \o TextDeltas[i + 1].text
        /\ Len(TextDeltas[i + 1].accumulated) >= Len(TextDeltas[i].accumulated)

\* two text_delta events with another event between them
C17_Witness ==
    /\ Len(TextDeltas) = 2
    /\ Len(events) = 3
    /\ events[2].type # "text_delta"

\* C18: a tool invocation announced once by a content_block_start of type
\* tool_use and once by a tool_use block of an assistant record, in either
\* order, makes exactly one tool_use event.
C18_OneToolUsePerInvocation ==
    \A n \in ToolNames :
        (ref.clean /\ ref.primary[n] = 1 /\ ref.secondary[n] = 1)
        => ToolUseEvents(n) = 1

\* the stream event came first and the assistant record added no event
C18_Witness ==
    /\ ref.clean
    /\ ref.primary["Read"] = 1
    /\ ref.secondary["Read"] = 1
    /\ ToolUseEvents("Read") = 1
    /\ ref.last = Assistant(<< ToolUse("Read") >>)

\* C19: a 'result' record makes a 'complete' whose output is the record's
\* result if that is not empty, else the accumulated text if that is not
\* empty, else the placeholder, and whose success is the negation of the
\* record's is_error.
C19_ResultRecordOutput ==
    (WellFormed(ref.last) /\ ref.delivered /\ TypeOf(ref.last.parsed) = "result")
    => LET record == ref.last.parsed
           e == events[Len(events)]
       IN  /\ events # << >>
           /\ e.type = "complete"
           /\ e.result.output =
                 IF Has(record, "result") /\ Len(record.result) > 0 THEN record.result
                 ELSE IF Len(state.accumulatedText) > 0 THEN state.accumulatedText
                 ELSE EMPTY_RESPONSE
           /\ e.result.success = ~(Has(record, "is_error") /\ record.is_error)

\* a result record with an empty result field came after text
C19_Witness ==
    /\ ref.last = Json([type |-> "result", is_error |-> TRUE, result |-> << >>])
    /\ ref.delivered
    /\ state.accumulatedText = <<"H", "i">>
    /\ events[Len(events)].result.output = <<"H", "i">>

\* a step in which the line handler parsed a line, and the events it emitted
Parsed(line) == lines' = lines + 1 /\ ref'.last = line /\ ref'.delivered
NewEvents == SubSeq(events', Len(events) + 1, Len(events'))

ThinkingStart == BlockStart([type |-> "thinking"])
TextStart == BlockStart([type |-> "text"])
ToolResult ==
    Json([type |-> "user", message |-> [content |-> << [type |-> "tool_result"] >>],
          tool_use_result |-> [durationSeconds |-> 2]])
UserText == Json([type |-> "user", message |-> [content |-> << [type |-> "text"] >>]])
ClearsThinking == {TextStart, TextDelta(<<"H", "i">>), TextDelta(<<"!">>)}

\* C25: a content_block_start of type tool_use makes the announced name the
\* active tool, emits tool_use, and clears the thinking flag, so that a later
\* content_block_start of type thinking emits a new 'thinking'.
C25_ToolUseStartClearsThinking ==
    [][\A n \in ToolNames :
         Parsed(BlockStart(ToolUse(n)))
         => /\ state'.currentToolName = n
            /\ NewEvents = << [type |-> "tool_use", toolName |-> n] >>
            /\ ~state'.isThinking]_vars

\* thinking, a tool, thinking again: the second thinking block emitted nothing
C25_Witness ==
    /\ lines = 3
    /\ ref.last = ThinkingStart
    /\ ref.clean
    /\ Len(events) = 2
    /\ events[1].type = "thinking"
    /\ events[2].type = "tool_use"
    /\ \E n \in ToolNames : ref.primary[n] = 1

\* C26: a content_block_start of type thinking emits 'thinking' and sets the
\* thinking flag when the flag is unset; while the flag is set it emits
\* nothing and leaves the parser state as it is; the flag stays set until a
\* text block start or a text delta, which clear it.
C26_ThinkingLatch ==
    /\ [][Parsed(ThinkingStart)
          => IF state.isThinking
             THEN NewEvents = << >> /\ state' = state
             ELSE /\ NewEvents = << [type |-> "thinking"] >>
                  /\ state' = [state EXCEPT !.isThinking = TRUE]]_vars
    /\ [][\A line \in ClearsThinking : Parsed(line) => ~state'.isThinking]_vars
    /\ [][(state.isThinking /\ ~state'.isThinking)
          => \E line \in ClearsThinking : Parsed(line)]_vars

\* after a thinking event and nothing else, a text delta cleared the flag
C26_Witness ==
    /\ lines = 3
    /\ ref.clean
    /\ ref.last = TextDelta(<<"!">>)
    /\ ~state.isThinking
    /\ Len(events) = 2
    /\ events[1].type = "thinking"
    /\ events[2].type = "text_delta"
    /\ ref.primary = [n \in ToolNames |-> 0]

\* C27: a user record whose first content item is a tool_result emits one
\* tool_result named after the active tool, or after the placeholder when no
\* tool is active, and leaves no tool active; a user record whose first
\* content item is something else emits nothing and leaves the active tool
\* as it is.
C27_ToolResultEndsTool ==
    /\ [][Parsed(ToolResult)
          => /\ Len(NewEvents) = 1
             /\ NewEvents[1].type = "tool_result"
             /\ NewEvents[1].toolName = IF state.currentToolName = "null"
                                        THEN GENERIC_TOOL
                                        ELSE state.currentToolName
             /\ state'.currentToolName = "null"]_vars
    /\ [][Parsed(UserText) => NewEvents = << >> /\ state' = state]_vars

\* a tool's result was reported under its name, and a later user record
\* without a tool result emitted nothing
C27_Witness ==
    /\ lines = 3
    /\ ref.clean
    /\ ref.last = UserText
    /\ Len(events) = 2
    /\ events[1] = [type |-> "tool_use", toolName |-> "Bash"]
    /\ events[2].type = "tool_result"
    /\ events[2].toolName = "Bash"
    /\ state.currentToolName = "null"

\* C28: when an assistant record announces a tool and the record before it
\* announced the same tool, with no tool_result between them, the second
\* record emits no tool_use and leaves the parser state as it is.
C28_RepeatedAnnouncementMerged ==
    [][\A n \in ToolNames :
         (/\ ref.last = Assistant(<< ToolUse(n) >>)
          /\ ref.delivered
          /\ Parsed(Assistant(<< ToolUse(n) >>)))
         => NewEvents = << >> /\ state' = state]_vars

\* the assistant channel announced Read twice and one tool_use was emitted
C28_Witness ==
    /\ lines = 2
    /\ ref.clean
    /\ ref.secondary["Read"] = 2
    /\ ref.primary["Read"] = 0
    /\ ToolUseEvents("Read") = 1

(***************************************************************************)
(* Properties of the stream updater                                        *)
(***************************************************************************)
\* a step in which the interval callback ran
TickStep == pushLog'.ticks = pushLog.ticks + 1

\* a step that started a push
PushStarted == pushLog'.started = pushLog.started + 1

\* C11: at most one push of a stream updater is in flight at any time; an
\* interval callback that runs while a push is outstanding starts no push,
\* and no push starts outside an interval callback (none is queued).
C11_OnePushInFlight ==
    /\ [](inflight.progress <= 1)
    /\ [][(TickStep /\ inflight.progress > 0) => ~PushStarted]_vars
    /\ [][pushLog'.started # pushLog.started => (TickStep /\ PushStarted)]_vars

\* an interval callback ran while a push was in flight, with unsent changes
C11_Witness ==
    /\ pushLog.lastTick = "flushing"
    /\ inflight.progress = 1
    /\ updater.dirty

\* C12: an interval callback starts a push only if the rendered content
\* differs from the content of the previous push (at first, from the message
\* as posted).
C12_PushOnlyWhenChanged ==
    [][PushStarted => buildMessage(updater) # pushLog.lastBody]_vars

\* a push of changed content was started
C12_Witness ==
    /\ pushLog.started = 1
    /\ pushLog.lastTick = "pushed"
    /\ pushLog.lastBody # buildMessage(NewUpdater)

\* C13: once the updater has received 'complete', no push is started, also
\* when changes were unsent at that moment and interval callbacks still run.
C13_NoPushAfterComplete ==
    [][req.completes > 0 => pushLog'.started = pushLog.started]_vars

\* after 'complete' an interval callback ran with unsent changes, before
\* cleanup, while an earlier push was still in flight
C13_Witness ==
    /\ req.completes > 0
    /\ req.pc = "resolved"
    /\ pushLog.lastTick = "stopped"
    /\ updater.dirty
    /\ inflight.progress = 1

\* C14: after a failed push, the next interval callback of an updater that
\* is not stopped starts a push, also when no event arrived since.
C14_RetryAfterFailure ==
    [][(/\ TickStep
        /\ pushLog.lastOutcome = "failed"
        /\ ~updater.stopped
        /\ ~updater.flushing) => PushStarted]_vars

\* a push failed and a later interval callback pushed
C14_Witness ==
    /\ pushLog.lastOutcome = "failed"
    /\ pushLog.lastTick = "pushed"
    /\ pushLog.started = 2
    /\ inflight.progress = 1

\* C15: the final update of handleClaudeRequest is never in flight together
\* with a push of the updater to the same message.
C15_FinalNeverOverlapsPush ==
    ~(inflight.final > 0 /\ inflight.progress > 0)

\* the final update was sent after a push had settled
C15_Witness ==
    /\ inflight.final = 1
    /\ inflight.progress = 0
    /\ pushLog.landed = <<"progress">>

\* C32: the in-flight guard loses no update.  When an event has changed the
\* content while a push was in flight and the updater has not been stopped by
\* 'complete' or cleanup, the first interval callback that finds no push in
\* flight starts a push, and the body of that push is built from the render
\* state of that moment, the change included.
C32_NoUpdateLostWhileFlushing ==
    [][(/\ pushLog.missed = "missed"
        /\ TickStep
        /\ ~updater.stopped
        /\ inflight.progress = 0)
       => /\ PushStarted
          /\ pushLog'.lastBody = buildMessage(updater)]_vars

\* a change that came while a push was in flight went out with the next push
C32_Witness ==
    /\ pushLog.missed = "sent"
    /\ pushLog.started = 2
    /\ pushLog.lastTick = "pushed"
    /\ inflight.progress = 1
    /\ pushLog.lastBody = buildMessage(updater)


(***************************************************************************)
(* the body of the progress message                                        *)
(***************************************************************************)
\* the completed-tool lines, oldest first, each one ended by a line break
RECURSIVE ToolLines(_)
ToolLines(h) ==
    IF h = << >> THEN << >>
    ELSE HistoryLine(Head(h)) \o <<"\n">> \o ToolLines(Tail(h))

\* what follows the status line: nothing without text, else the separator and
\* the text, or "...\n" and its last MAX_PREVIEW_LEN characters
PreviewSection(text) ==
    IF text = << >> THEN << >>
    ELSE <<"\n">> \o SEPARATOR \o <<"\n">>
         \o (IF Len(text) <= MAX_PREVIEW_LEN THEN text
             ELSE <<".", ".", ".", "\n">>
                  \o SubSeq(text, Len(text) - MAX_PREVIEW_LEN + 1, Len(text)))

IsPrefix(a, b) == Len(a) <= Len(b) /\ SubSeq(b, 1, Len(a)) = a

\* C31 as stated: for every render state the body is at most MAX_BODY_LEN
\* characters long, has the completed-tool lines oldest first and then the
\* status line, and shows after them no more than the preview of the text
C31_BodyListsToolsThenStatus ==
    textResult.done
    => LET u == textArg.u
           top == ToolLines(u.toolHistory) \o u.statusLine
           body == textResult.out
       IN  /\ Len(body) <= MAX_BODY_LEN
           /\ IsPrefix(top, body)
           /\ IsPrefix(SubSeq(body, Len(top) + 1, Len(body)),
                       PreviewSection(u.accumulatedText))

\* C31, amended: for every render state the body is the first MAX_BODY_LEN
\* characters of the completed-tool lines oldest first, the status line and
\* the preview section, so it is at most MAX_BODY_LEN characters long and a
\* longer composition loses its end
C31_BodyIsClampedComposition ==
    textResult.done
    => LET u == textArg.u
           whole == ToolLines(u.toolHistory) \o u.statusLine
                    \o PreviewSection(u.accumulatedText)
           body == textResult.out
       IN  /\ Len(body) <= MAX_BODY_LEN
           /\ IsPrefix(body, whole)
           /\ Len(body) = MAX_BODY_LEN \/ body = whole

\* a body cut at MAX_BODY_LEN, built from two or more tool lines and a text
\* longer than the preview window
C31_Witness ==
    /\ textResult.done
    /\ Len(textResult.out) = MAX_BODY_LEN
    /\ Len(textArg.u.toolHistory) >= 2
    /\ Len(textArg.u.accumulatedText) > MAX_PREVIEW_LEN
    /\ Len(ToolLines(textArg.u.toolHistory) \o textArg.u.statusLine
           \o PreviewSection(textArg.u.accumulatedText)) > MAX_BODY_LEN

====
